---------------------------- MODULE Spec2Model ----------------------------
(***************************************************************************)
(* State-machine model of the AR0822 V4L2 sensor driver (src/ar0822.c):    *)
(* format negotiation, the control surface with the exposure/vblank        *)
(* coupling, the streaming state machine and its runtime-PM references.    *)
(* Every subdevice operation runs under sensor->mutex, so one operation is *)
(* one atomic action.  The register transport (cci_write) is the           *)
(* environment: each action draws the set of write attempts that fail.     *)
(***************************************************************************)
EXTENDS Integers, Sequences, FiniteSets, TLC

(***************************************************************************)
(* Bounds of the model.                                                    *)
(***************************************************************************)
\* operations explored per behaviour
MaxOps == 2
\* operations explored per behaviour of the framing specification
MaxFramingOps == 4
\* power references the driver may hold at once (references can leak)
MaxUsage == 2
\* Operations on a device after one probe of it.
MaxAttachOps == 1

(***************************************************************************)
(* Program constants.                                                      *)
(***************************************************************************)
AR0822_MODEL_ID == 3926
AR0822_VBLANK_STEP == 8
AR0822_VTS_MAX == 65535
AR0822_EXPOSURE_MIN == 4
AR0822_EXPOSURE_STEP == 1
AR0822_EXPOSURE_DEFAULT == 1600
AR0822_ANA_GAIN_MIN == 0
AR0822_ANA_GAIN_MAX == 119
AR0822_MODE_SELECT_STREAM_OFF == 0
AR0822_MODE_SELECT_STREAM_ON == 1
AR0822_TEST_PATTERN_COLOR_MIN == 0
AR0822_TEST_PATTERN_COLOR_MAX == 4095
AR0822_FLL_4K_MIN == 2184
AR0822_BIT_DEPTH_ID_10BIT == 0
AR0822_BIT_DEPTH_ID_12BIT == 1
AR0822_BIT_DEPTH_ID_AMOUNT == 2
AR0822_LANE_MODE_ID_2 == 0
AR0822_LANE_MODE_ID_4 == 1
AR0822_EXTCLK_LINK_ID_24_480 == 0
AR0822_EXTCLK_LINK_ID_24_960 == 1

\* return codes: success and the errno names
OK == "0"
EIO == "-EIO"
EINVAL == "-EINVAL"
EBUSY == "-EBUSY"
ERANGE == "-ERANGE"
EACCES == "-EACCES"
\* the error of a failed power-up (regulators or clock)
EPOWER == "-ETIMEDOUT"
ENODEV == "-ENODEV"
ENOMEM == "-ENOMEM"

\* A pointer devm_kzalloc left zero.
NULL == 0 - 1

Min(a, b) == IF a < b THEN a ELSE b
Abs(a) == IF a < 0 THEN 0 - a ELSE a
Reg(r, v) == [reg |-> r, val |-> v]

(***************************************************************************)
(* Static tables.                                                          *)
(***************************************************************************)
ar0822_format_codes(i) ==
    IF i = AR0822_BIT_DEPTH_ID_10BIT THEN "SGRBG10_1X10" ELSE "SGRBG12_1X12"

\* The Bayer orders by flip combination, index (vflip ? 2 : 0) | (hflip ? 1 : 0),
\* of the driver revision that rotates the code with the flips.
ar0822_format_codes_10bit ==
    << "SGRBG10_1X10", "SRGGB10_1X10", "SBGGR10_1X10", "SGBRG10_1X10" >>

ar0822_format_codes_12bit ==
    << "SGRBG12_1X12", "SRGGB12_1X12", "SBGGR12_1X12", "SGBRG12_1X12" >>

ar0822_pll_config_24_480 ==
    << Reg("PLL_MULTIPLIER", 80), Reg("PRE_PLL_CLK_DIV", 1),
       Reg("VT_SYS_CLK_DIV", 2), Reg("VT_PIX_CLK_DIV", 6),
       Reg("OP_SYS_CLK_DIV", 4) >>

ar0822_pll_config_24_960 ==
    << Reg("PLL_MULTIPLIER", 80), Reg("PRE_PLL_CLK_DIV", 1),
       Reg("VT_SYS_CLK_DIV", 2), Reg("VT_PIX_CLK_DIV", 6),
       Reg("OP_SYS_CLK_DIV", 2) >>

ar0822_1080p_config ==
    << Reg("X_ADDR_START", 968), Reg("X_ADDR_END", 2887),
       Reg("Y_ADDR_START", 548), Reg("Y_ADDR_END", 1627),
       Reg("X_ODD_INC", 1), Reg("Y_ODD_INC", 1),
       Reg("X_OUTPUT_CONTROL", 1920), Reg("Y_OUTPUT_CONTROL", 1080) >>

ar0822_4k_config ==
    << Reg("X_ADDR_START", 8), Reg("X_ADDR_END", 3847),
       Reg("Y_ADDR_START", 8), Reg("Y_ADDR_END", 2167),
       Reg("X_ODD_INC", 1), Reg("Y_ODD_INC", 1),
       Reg("X_OUTPUT_CONTROL", 3840), Reg("Y_OUTPUT_CONTROL", 2160) >>

Timing(llp, fll) == [line_length_pck_min |-> llp, frame_length_lines_min |-> fll]

\* timing[lane_mode][bit_depth] as a function on <<lane_mode, bit_depth>>
TimingTable(t2_10, t2_12, t4_10, t4_12) ==
    [k \in (0..1) \X (0..1) |->
        IF k = <<0, 0>> THEN t2_10
        ELSE IF k = <<0, 1>> THEN t2_12
        ELSE IF k = <<1, 0>> THEN t4_10 ELSE t4_12]

ar0822_formats_24_480 ==
    [i \in 0..1 |->
        IF i = 0
        THEN [width |-> 1920, height |-> 1080,
              timing |-> TimingTable(Timing(1812, 1464), Timing(2142, 1240),
                                     Timing(1012, 2632), Timing(1180, 2248)),
              reg_sequence |-> ar0822_1080p_config]
        ELSE [width |-> 3840, height |-> 2160,
              timing |-> TimingTable(Timing(3412, AR0822_FLL_4K_MIN),
                                     Timing(4062, AR0822_FLL_4K_MIN),
                                     Timing(1812, AR0822_FLL_4K_MIN),
                                     Timing(2140, AR0822_FLL_4K_MIN)),
              reg_sequence |-> ar0822_4k_config]]

ar0822_formats_24_960 ==
    [i \in 0..1 |->
        IF i = 0
        THEN [width |-> 1920, height |-> 1080,
              timing |-> TimingTable(Timing(982, 2712), Timing(1146, 2320),
                                     Timing(792, 3360), Timing(792, 3360)),
              reg_sequence |-> ar0822_1080p_config]
        ELSE [width |-> 3840, height |-> 2160,
              timing |-> TimingTable(Timing(1782, AR0822_FLL_4K_MIN),
                                     Timing(2106, AR0822_FLL_4K_MIN),
                                     Timing(1220, AR0822_FLL_4K_MIN),
                                     Timing(1146, AR0822_FLL_4K_MIN)),
              reg_sequence |-> ar0822_4k_config]]

\* The catalogs of the driver revision kept in ar0822-overlay.dts, whose
\* 1920x1080 entries are commented out: the size fields, which are all that
\* the nearest-size scan reads.
ar0822_modes_24_480 == [i \in 0..0 |-> [width |-> 3840, height |-> 2160]]

ar0822_modes_24_960 == [i \in 0..0 |-> [width |-> 3840, height |-> 2160]]

ar0822_mipi_timing_24_480_10bit ==
    << Reg("FRAME_PREAMBLE", 125), Reg("LINE_PREAMBLE", 84),
       Reg("MIPI_TIMING_0", 25161), Reg("MIPI_TIMING_1", 21193),
       Reg("MIPI_TIMING_2", 32971), Reg("MIPI_TIMING_3", 780),
       Reg("MIPI_TIMING_4", 3722), Reg("MIPI_DESKEW_PAT_WIDTH", 2807),
       Reg("MIPI_PER_DESKEW_PAT_WIDTH", 181), Reg("MIPI_F1_PDT", 4651) >>

ar0822_mipi_timing_24_480_12bit ==
    << Reg("FRAME_PREAMBLE", 108), Reg("LINE_PREAMBLE", 74),
       Reg("MIPI_TIMING_0", 20936), Reg("MIPI_TIMING_1", 21064),
       Reg("MIPI_TIMING_2", 28874), Reg("MIPI_TIMING_3", 650),
       Reg("MIPI_TIMING_4", 3080), Reg("MIPI_DESKEW_PAT_WIDTH", 2796),
       Reg("MIPI_PER_DESKEW_PAT_WIDTH", 167), Reg("MIPI_F1_PDT", 4652) >>

ar0822_mipi_timing_24_960_10bit ==
    << Reg("FRAME_PREAMBLE", 217), Reg("LINE_PREAMBLE", 141),
       Reg("MIPI_TIMING_0", 41936), Reg("MIPI_TIMING_1", 38227),
       Reg("MIPI_TIMING_2", 61649), Reg("MIPI_TIMING_3", 1432),
       Reg("MIPI_TIMING_4", 7443), Reg("MIPI_DESKEW_PAT_WIDTH", 2874),
       Reg("MIPI_PER_DESKEW_PAT_WIDTH", 263), Reg("MIPI_F1_PDT", 4651) >>

ar0822_mipi_timing_24_960_12bit ==
    << Reg("FRAME_PREAMBLE", 184), Reg("LINE_PREAMBLE", 121),
       Reg("MIPI_TIMING_0", 33550), Reg("MIPI_TIMING_1", 33873),
       Reg("MIPI_TIMING_2", 53454), Reg("MIPI_TIMING_3", 1172),
       Reg("MIPI_TIMING_4", 6160), Reg("MIPI_DESKEW_PAT_WIDTH", 2851),
       Reg("MIPI_PER_DESKEW_PAT_WIDTH", 235), Reg("MIPI_F1_PDT", 4652) >>

ar0822_extclk_frequencies ==
    [i \in {AR0822_EXTCLK_LINK_ID_24_480, AR0822_EXTCLK_LINK_ID_24_960} |->
        24000000]

ar0822_link_frequencies ==
    [i \in {AR0822_EXTCLK_LINK_ID_24_480, AR0822_EXTCLK_LINK_ID_24_960} |->
        IF i = AR0822_EXTCLK_LINK_ID_24_480 THEN 480000000 ELSE 960000000]

ar0822_pll_configs(i) ==
    IF i = AR0822_EXTCLK_LINK_ID_24_480
    THEN [formats |-> ar0822_formats_24_480, formats_amount |-> 2,
          regs_pll |-> ar0822_pll_config_24_480,
          regs_mipi |-> [b \in 0..1 |-> IF b = 0
                                         THEN ar0822_mipi_timing_24_480_10bit
                                         ELSE ar0822_mipi_timing_24_480_12bit]]
    ELSE [formats |-> ar0822_formats_24_960, formats_amount |-> 2,
          regs_pll |-> ar0822_pll_config_24_960,
          regs_mipi |-> [b \in 0..1 |-> IF b = 0
                                         THEN ar0822_mipi_timing_24_960_10bit
                                         ELSE ar0822_mipi_timing_24_960_12bit]]

ar0822_test_pattern_val(i) ==
    IF i = 5 THEN 256 ELSE i

ar0822_regs_common ==
    << Reg("OPERATION_MODE_CTRL", 1), Reg("DIGITAL_CTRL", 36) >>

(***************************************************************************)
(* State.                                                                  *)
(*   sensor  struct ar0822: pll_config, hw_config, streaming, mode,        *)
(*           fmt_code                                                      *)
(*   ctrls   the controls of sensor->ctrl_hdlr, by control id; cur is the  *)
(*           committed value (ctrl->cur.val), val the new value a handler  *)
(*           reads as ctrl->val                                            *)
(*   pm      the runtime-PM core's view of the device: usage_count and     *)
(*           status                                                        *)
(*   try_fmt the per-file-handle TRY format                                *)
(*   log     the register writes attempted by the last operation           *)
(*   last    the last operation, its arguments and what it returned        *)
(*   nops    operations performed so far                                   *)
(***************************************************************************)
VARIABLES sensor, ctrls, pm, try_fmt, log, last, nops, mutex, tasks

vars == <<sensor, ctrls, pm, try_fmt, log, last, nops, mutex, tasks>>

\* sensor->mutex (its owner, NULL when free) and the callers that are inside
\* an operation; both only move where callers overlap.
Callers == {1, 2}

TaskIdle ==
    [pc |-> "idle", op |-> "none", arg |-> <<>>, stage |-> 0, start |-> 0,
     own |-> <<>>, at_lock |-> <<>>, seen |-> <<>>, timing |-> <<>>,
     resumed |-> FALSE, overlap |-> FALSE, ret |-> "0"]

NoTasks == [t \in Callers |-> TaskIdle]

\* Controls in the order ar0822_ctrls_init creates them (hdl->ctrls order),
\* without the informational read-only LINK_FREQ and PIXEL_RATE.
CtrlOrder ==
    << "HBLANK", "VBLANK", "EXPOSURE", "ANALOGUE_GAIN", "HFLIP", "VFLIP",
       "TEST_PATTERN", "TEST_PATTERN_RED", "TEST_PATTERN_GREENR",
       "TEST_PATTERN_BLUE", "TEST_PATTERN_GREENB" >>

CtrlIds == {CtrlOrder[i] : i \in 1..Len(CtrlOrder)}

\* v4l2_ctrl_new_std / v4l2_ctrl_new_std_menu_items: a fresh control holds
\* its default value.
NewCtrl(type, min, max, step, def, ro) ==
    [type |-> type, minimum |-> min, maximum |-> max, step |-> step,
     default_value |-> def, cur |-> def, val |-> def,
     grabbed |-> FALSE, read_only |-> ro]

\* The world an operation runs in: the device state, the writes attempted so
\* far, the attempts that will fail, and the return code.
World(s, c, p, fails) ==
    [sensor |-> s, ctrls |-> c, pm |-> p, log |-> <<>>, fails |-> fails,
     ret |-> OK]

ActiveFormat(w) ==
    ar0822_pll_configs(w.sensor.pll_config).formats[w.sensor.mode.format]

\* cci_write: one register write over the transport; the n-th attempt of the
\* operation fails when n is in w.fails.
cci_write(w, reg, val) ==
    LET n  == Len(w.log) + 1
        ok == n \notin w.fails
    IN  [w EXCEPT !.log = Append(@, [reg |-> reg, val |-> val, ok |-> ok,
                                     powered |-> /\ w.pm.status = "active"
                                                 /\ w.pm.usage_count > 0]),
                  !.ret = IF ok THEN OK ELSE EIO]

\* cci_multi_reg_write: the registers in order, stopping at the first failure.
RECURSIVE cci_multi_reg_write(_, _)
cci_multi_reg_write(w, regs) ==
    IF regs = <<>> THEN [w EXCEPT !.ret = OK]
    ELSE LET w1 == cci_write(w, Head(regs).reg, Head(regs).val)
         IN  IF w1.ret # OK THEN w1 ELSE cci_multi_reg_write(w1, Tail(regs))

ar0822_reg_seq_write(w, reg_sequence) == cci_multi_reg_write(w, reg_sequence)

\* pm_runtime_get_if_in_use returns nonzero (and takes a reference) only
\* when the device is active and its usage count is already nonzero.
pm_runtime_get_if_in_use(w) ==
    w.pm.status = "active" /\ w.pm.usage_count > 0

\* pm_runtime_mark_last_busy + pm_runtime_put_autosuspend
pm_runtime_put_autosuspend(w) ==
    [w EXCEPT !.pm.usage_count = @ - 1]

\* ROUND_TO_RANGE of the control framework: clamp to [minimum, maximum] and
\* round to the step grid anchored at minimum.
RoundToRange(c, v) ==
    LET half == c.step \div 2
        v1 == IF c.maximum >= 0 /\ v >= c.maximum - half
              THEN c.maximum ELSE v + half
        v2 == IF v1 < c.minimum THEN c.minimum
              ELSE IF v1 > c.maximum THEN c.maximum ELSE v1
    IN  c.minimum + c.step * ((v2 - c.minimum) \div c.step)

\* validate_new: integers are clamped, booleans normalised, a menu index
\* outside the menu is an error.
ValidateNew(c) ==
    CASE c.type = "INTEGER" -> [ret |-> OK, val |-> RoundToRange(c, c.val)]
      [] c.type = "BOOLEAN" -> [ret |-> OK, val |-> IF c.val # 0 THEN 1 ELSE 0]
      [] OTHER -> IF c.val < c.minimum \/ c.val > c.maximum
                  THEN [ret |-> ERANGE, val |-> c.val]
                  ELSE [ret |-> OK, val |-> c.val]

(***************************************************************************)
(* The control surface.                                                    *)
(***************************************************************************)
RECURSIVE ar0822_set_ctrl(_, _)
RECURSIVE SetCtrl(_, _)
RECURSIVE v4l2_ctrl_modify_range(_, _, _, _, _, _)

\* The register write of one control, the switch of ar0822_set_ctrl; a
\* control without a case is -EINVAL.
CtrlRegWrite(w, id) ==
    LET c == w.ctrls[id]
    IN  CASE id = "VBLANK" ->
               cci_write(w, "FRAME_LENGTH_LINES", ActiveFormat(w).height + c.val)
          [] id = "EXPOSURE" ->
               cci_write(w, "COARSE_INTEGRATION_TIME", c.val)
          [] id = "ANALOGUE_GAIN" ->
               cci_write(w, "SENSOR_GAIN", c.val)
          [] id \in {"HFLIP", "VFLIP"} ->
               cci_write(w, "IMAGE_ORIENTATION",
                         w.ctrls["HFLIP"].val + 2 * w.ctrls["VFLIP"].val)
          [] id = "TEST_PATTERN" ->
               cci_write(w, "TEST_PATTERN_MODE", ar0822_test_pattern_val(c.val))
          [] id = "TEST_PATTERN_RED" -> cci_write(w, "TEST_DATA_RED", c.val)
          [] id = "TEST_PATTERN_GREENR" -> cci_write(w, "TEST_DATA_GREENR", c.val)
          [] id = "TEST_PATTERN_BLUE" -> cci_write(w, "TEST_DATA_BLUE", c.val)
          [] id = "TEST_PATTERN_GREENB" -> cci_write(w, "TEST_DATA_GREENB", c.val)
          [] OTHER -> [w EXCEPT !.ret = EINVAL]

\* ar0822_adjust_exposure_range: the exposure maximum follows the new
\* vertical blanking; the result of the range change is not looked at.
ar0822_adjust_exposure_range(w) ==
    LET exposure_max == ActiveFormat(w).height + w.ctrls["VBLANK"].val
                        - AR0822_EXPOSURE_MIN
        exposure_def == Min(exposure_max, w.ctrls["EXPOSURE"].val)
    IN  v4l2_ctrl_modify_range(w, "EXPOSURE", w.ctrls["EXPOSURE"].minimum,
                               exposure_max, w.ctrls["EXPOSURE"].step,
                               exposure_def)

\* ar0822_set_ctrl writing the control's register whether or not the device
\* is in use.
ApplyCtrlUnpowered(w, id) ==
    pm_runtime_put_autosuspend(
        CtrlRegWrite([w EXCEPT !.pm.usage_count = @ + 1], id))

\* ar0822_set_ctrl past the vertical-blanking case: nothing is written to a
\* device that is not in use; otherwise the control's register is written
\* with a reference held for the write.
ApplyCtrl(w, id) ==
    IF ~pm_runtime_get_if_in_use(w)
    THEN [w EXCEPT !.ret = OK]
    ELSE pm_runtime_put_autosuspend(
             CtrlRegWrite([w EXCEPT !.pm.usage_count = @ + 1], id))

\* ar0822_set_ctrl, the s_ctrl operation of every control.
ar0822_set_ctrl(w, id) ==
    ApplyCtrl(IF id = "VBLANK" THEN ar0822_adjust_exposure_range(w) ELSE w, id)

\* new_to_cur of the control framework, reached only when the handler
\* succeeded.
NewToCur(w, id) ==
    IF w.ret # OK THEN w ELSE [w EXCEPT !.ctrls[id].cur = w.ctrls[id].val]

\* set_ctrl + try_or_set_cluster of the control framework, for a control
\* whose new value is already in val: validate, refuse a grabbed control,
\* skip the handler when nothing changes, and commit val to cur only when
\* the handler succeeds.
SetCtrl(w, id) ==
    LET v == ValidateNew(w.ctrls[id])
        w1 == [w EXCEPT !.ctrls[id].val = v.val]
    IN  IF v.ret # OK THEN [w EXCEPT !.ret = v.ret]
        ELSE IF w1.ctrls[id].grabbed THEN [w1 EXCEPT !.ret = EBUSY]
        ELSE IF w1.ctrls[id].val = w1.ctrls[id].cur THEN [w1 EXCEPT !.ret = OK]
        ELSE NewToCur(ar0822_set_ctrl(w1, id), id)

\* __v4l2_ctrl_modify_range: a range check_range refuses changes nothing;
\* otherwise the range is replaced, the current value is clamped into it and,
\* if that changes the value, set through the handler.
v4l2_ctrl_modify_range(w, id, min, max, step, def) ==
    IF step = 0 \/ min > max \/ def < min \/ def > max
    THEN [w EXCEPT !.ret = ERANGE]
    ELSE LET c1 == [w.ctrls[id] EXCEPT !.minimum = min, !.maximum = max,
                                       !.step = step, !.default_value = def]
             c2 == [c1 EXCEPT !.val = RoundToRange(c1, c1.cur)]
             w1 == [w EXCEPT !.ctrls[id] = c2]
         IN  IF c2.val # c2.cur THEN SetCtrl(w1, id)
             ELSE [w1 EXCEPT !.ret = OK]

\* __v4l2_ctrl_s_ctrl: set a control from inside the driver.
v4l2_ctrl_s_ctrl(w, id, val) ==
    SetCtrl([w EXCEPT !.ctrls[id].val = val], id)

\* v4l2_s_ctrl: a control set by the application; read-only controls are
\* refused before the handler is reached.
v4l2_s_ctrl(w, id, val) ==
    IF w.ctrls[id].read_only THEN [w EXCEPT !.ret = EACCES]
    ELSE SetCtrl([w EXCEPT !.ctrls[id].val = val], id)

\* __v4l2_ctrl_handler_setup: every writable control in creation order, its
\* current value handed to the handler; the first error ends the walk.
RECURSIVE v4l2_ctrl_handler_setup(_, _)
v4l2_ctrl_handler_setup(w, i) ==
    IF i > Len(CtrlOrder) \/ w.ret # OK THEN w
    ELSE IF w.ctrls[CtrlOrder[i]].read_only
    THEN v4l2_ctrl_handler_setup(w, i + 1)
    ELSE v4l2_ctrl_handler_setup(
             ar0822_set_ctrl([w EXCEPT !.ctrls[CtrlOrder[i]].val =
                                           w.ctrls[CtrlOrder[i]].cur],
                             CtrlOrder[i]),
             i + 1)

ar0822_get_timing(w) ==
    ActiveFormat(w).timing[<<w.sensor.hw_config.lane_mode,
                             w.sensor.mode.bit_depth>>]

\* ar0822_set_framing_limits: vblank range and value from the mode's timing,
\* hblank pinned to its single value; no result is looked at.
ar0822_set_framing_limits(w) ==
    LET format == ActiveFormat(w)
        timing == ar0822_get_timing(w)
        vb     == timing.frame_length_lines_min - format.height
        w1 == v4l2_ctrl_modify_range(w, "VBLANK", vb,
                                     AR0822_VTS_MAX - format.height,
                                     w.ctrls["VBLANK"].step, vb)
        w2 == v4l2_ctrl_s_ctrl(w1, "VBLANK", vb)
        hblank == timing.line_length_pck_min - format.width
        w3 == v4l2_ctrl_modify_range(w2, "HBLANK", hblank, hblank, 1, hblank)
    IN  v4l2_ctrl_s_ctrl(w3, "HBLANK", hblank)

(***************************************************************************)
(* Streaming.                                                              *)
(***************************************************************************)
ar0822_mode_stream_on(w) ==
    cci_write(w, "MODE_SELECT", AR0822_MODE_SELECT_STREAM_ON)

ar0822_mode_stream_off(w) ==
    cci_write(w, "MODE_SELECT", AR0822_MODE_SELECT_STREAM_OFF)

\* ar0822_get_bit_depth answering 10 bits for every id.
ar0822_get_bit_depth_always_10(id) == [ret |-> OK, bit_depth |-> 10]

\* ar0822_get_bit_depth: bits per pixel of a bit-depth id.
ar0822_get_bit_depth(id) ==
    IF id = AR0822_BIT_DEPTH_ID_10BIT THEN [ret |-> OK, bit_depth |-> 10]
    ELSE IF id = AR0822_BIT_DEPTH_ID_12BIT THEN [ret |-> OK, bit_depth |-> 12]
    ELSE [ret |-> EINVAL, bit_depth |-> 0]

\* A get that takes the reference and leaves the device as it is.
pm_runtime_get_noresume(w, resume_fails) ==
    [w EXCEPT !.pm.usage_count = @ + 1, !.ret = OK]

\* pm_runtime_resume_and_get: power the device up if it is suspended and
\* take a reference; a failed resume takes none.
pm_runtime_resume_and_get(w, resume_fails) ==
    IF w.pm.status = "suspended" /\ resume_fails
    THEN [w EXCEPT !.ret = EPOWER]
    ELSE [w EXCEPT !.pm.status = "active", !.pm.usage_count = @ + 1,
                   !.ret = OK]

\* ar0822_config_pll: PLL sequence, op_word_clk_div, MIPI timing sequence.
ar0822_config_pll(w) ==
    LET bd == ar0822_get_bit_depth(w.sensor.mode.bit_depth)
    IN  IF bd.ret # OK THEN [w EXCEPT !.ret = bd.ret]
        ELSE LET cfg == ar0822_pll_configs(w.sensor.pll_config)
                 w1 == ar0822_reg_seq_write(w, cfg.regs_pll)
                 w2 == cci_write(w1, "OP_WORD_CLK_DIV", bd.bit_depth \div 2)
             IN  IF w1.ret # OK THEN w1
                 ELSE IF w2.ret # OK THEN w2
                 ELSE ar0822_reg_seq_write(w2,
                          cfg.regs_mipi[w.sensor.mode.bit_depth])

\* ar0822_config_serial_format: lane count and the data-format bits.
ar0822_config_serial_format(w) ==
    LET bd == ar0822_get_bit_depth(w.sensor.mode.bit_depth)
    IN  IF bd.ret # OK THEN [w EXCEPT !.ret = bd.ret]
        ELSE LET w1 == cci_write(w, "SERIAL_FORMAT",
                                 512 + w.sensor.hw_config.num_data_lanes)
             IN  IF w1.ret # OK THEN w1
                 ELSE cci_write(w1, "DATA_FORMAT_BITS",
                                256 * bd.bit_depth + bd.bit_depth)

\* A variant of ar0822_start_streaming that leaves standby before the
\* controls are re-applied instead of after.
ar0822_start_streaming_early_on(w, resume_fails) ==
    LET timing == ar0822_get_timing(w)
        w0 == pm_runtime_resume_and_get(w, resume_fails)
        w1 == ar0822_mode_stream_on(w0)
        w2 == ar0822_mode_stream_off(w1)
        w3 == ar0822_config_pll(w2)
        w4 == cci_multi_reg_write(w3, ar0822_regs_common)
        w5 == ar0822_reg_seq_write(w4, ActiveFormat(w).reg_sequence)
        w6 == ar0822_config_serial_format(w5)
        w7 == cci_write(w6, "LINE_LENGTH_PCK", timing.line_length_pck_min)
        w8 == ar0822_mode_stream_on(w7)
    IN  IF w0.ret # OK THEN w0
        ELSE IF w1.ret # OK THEN w1
        ELSE IF w2.ret # OK THEN w2
        ELSE IF w3.ret # OK THEN w3
        ELSE IF w4.ret # OK THEN w4
        ELSE IF w5.ret # OK THEN w5
        ELSE IF w6.ret # OK THEN w6
        ELSE IF w7.ret # OK THEN w7
        ELSE IF w8.ret # OK THEN w8
        ELSE v4l2_ctrl_handler_setup([w8 EXCEPT !.ret = OK], 1)

\* ar0822_start_streaming: every step returns at once when it fails.
ar0822_start_streaming(w, resume_fails) ==
    LET timing == ar0822_get_timing(w)
        w0 == pm_runtime_resume_and_get(w, resume_fails)
        w1 == ar0822_mode_stream_on(w0)
        w2 == ar0822_mode_stream_off(w1)
        w3 == ar0822_config_pll(w2)
        w4 == cci_multi_reg_write(w3, ar0822_regs_common)
        w5 == ar0822_reg_seq_write(w4, ActiveFormat(w).reg_sequence)
        w6 == ar0822_config_serial_format(w5)
        w7 == cci_write(w6, "LINE_LENGTH_PCK", timing.line_length_pck_min)
        w8 == v4l2_ctrl_handler_setup([w7 EXCEPT !.ret = OK], 1)
    IN  IF w0.ret # OK THEN w0
        ELSE IF w1.ret # OK THEN w1
        ELSE IF w2.ret # OK THEN w2
        ELSE IF w3.ret # OK THEN w3
        ELSE IF w4.ret # OK THEN w4
        ELSE IF w5.ret # OK THEN w5
        ELSE IF w6.ret # OK THEN w6
        ELSE IF w7.ret # OK THEN w7
        ELSE IF w8.ret # OK THEN w8
        ELSE ar0822_mode_stream_on(w8)

\* A variant of ar0822_stop_streaming that keeps the reference when the
\* standby write fails.
ar0822_stop_streaming_checked(w) ==
    IF ar0822_mode_stream_off(w).ret # OK
    THEN ar0822_mode_stream_off(w)
    ELSE pm_runtime_put_autosuspend(ar0822_mode_stream_off(w))

\* ar0822_stop_streaming: standby, whatever the write returns, and the
\* reference is dropped.
ar0822_stop_streaming(w) ==
    pm_runtime_put_autosuspend(ar0822_mode_stream_off(w))

\* A variant of the grab that leaves the flips as they are.
GrabNothing(w, grabbed) == w

\* __v4l2_ctrl_grab on vflip and hflip
GrabFlips(w, grabbed) ==
    [w EXCEPT !.ctrls["VFLIP"].grabbed = grabbed,
              !.ctrls["HFLIP"].grabbed = grabbed]

\* A variant of the step after ar0822_start_streaming that marks the sensor
\* streaming whatever the sequence returned.
StreamingStartedAnyway(w) ==
    GrabFlips([w EXCEPT !.sensor.streaming = TRUE], TRUE)

\* ar0822_set_stream after ar0822_start_streaming returned: an error is
\* handed back as it is; otherwise the flag is set and the flips are grabbed.
StreamingStarted(w) ==
    IF w.ret # OK THEN w
    ELSE GrabFlips([w EXCEPT !.sensor.streaming = TRUE], TRUE)

\* A variant of ar0822_set_stream without the early return for a request
\* that matches the current state.
ar0822_set_stream_unconditional(w, enable, resume_fails) ==
    IF enable # 0
    THEN StreamingStarted(ar0822_start_streaming(w, resume_fails))
    ELSE GrabFlips([ar0822_stop_streaming(w) EXCEPT
                        !.sensor.streaming = FALSE, !.ret = OK], FALSE)

\* ar0822_set_stream: enable is 0 or 1.
ar0822_set_stream(w, enable, resume_fails) ==
    IF w.sensor.streaming = (enable # 0) THEN [w EXCEPT !.ret = OK]
    ELSE IF enable # 0
    THEN StreamingStarted(ar0822_start_streaming(w, resume_fails))
    ELSE LET w1 == ar0822_stop_streaming(w)
         IN  GrabFlips([w1 EXCEPT !.sensor.streaming = FALSE, !.ret = OK],
                       FALSE)

(***************************************************************************)
(* Format negotiation.                                                     *)
(***************************************************************************)
\* ar0822_get_format_code handing every code back as it came.
ar0822_get_format_code_as_given(code) == code

\* ar0822_get_format_code: the table entry equal to the code, else entry 0.
ar0822_get_format_code(code) ==
    IF \E i \in 0..(AR0822_BIT_DEPTH_ID_AMOUNT - 1) : ar0822_format_codes(i) = code
    THEN code
    ELSE ar0822_format_codes(0)

\* ar0822_get_bit_depth_id: the index of the code in the table.
ar0822_get_bit_depth_id(code) ==
    IF \E i \in 0..(AR0822_BIT_DEPTH_ID_AMOUNT - 1) : ar0822_format_codes(i) = code
    THEN [ret |-> OK,
          id |-> CHOOSE i \in 0..(AR0822_BIT_DEPTH_ID_AMOUNT - 1) :
                     ar0822_format_codes(i) = code]
    ELSE [ret |-> "-ENOENT", id |-> 0]

\* v4l2_find_nearest_size over the config's formats: the smallest
\* |dw| + |dh|; of equal errors the later entry is kept, and an exact match
\* ends the scan.
RECURSIVE NearestFrom(_, _, _, _, _, _)
NearestFrom(formats, i, best, min_error, width, height) ==
    IF i \notin DOMAIN formats THEN best
    ELSE LET error == Abs(formats[i].width - width)
                      + Abs(formats[i].height - height)
         IN  IF min_error >= 0 /\ error > min_error
             THEN NearestFrom(formats, i + 1, best, min_error, width, height)
             ELSE IF error = 0 THEN i
             ELSE NearestFrom(formats, i + 1, i, error, width, height)

\* A scan that settles for the first entry.
v4l2_find_first_size(formats, width, height) == 0

v4l2_find_nearest_size(formats, width, height) ==
    NearestFrom(formats, 0, 0, 0 - 1, width, height)

\* ar0822_set_pad_format letting a TRY request through to the active mode.
ar0822_set_pad_format_try_commits(w, tf, fmt, ub_bit_depth) ==
    IF fmt.pad >= 1 THEN [w |-> [w EXCEPT !.ret = EINVAL], try_fmt |-> tf, fmt |-> fmt]
    ELSE
    LET code   == ar0822_get_format_code(fmt.code)
        format == v4l2_find_nearest_size(
                      ar0822_pll_configs(w.sensor.pll_config).formats,
                      fmt.width, fmt.height)
        f      == ar0822_pll_configs(w.sensor.pll_config).formats[format]
        out    == [fmt EXCEPT !.width = f.width, !.height = f.height,
                              !.code = code]
        tf1    == IF fmt.which = "TRY"
                  THEN [width |-> out.width, height |-> out.height,
                        code |-> out.code]
                  ELSE tf
    IN  [w |-> [ar0822_set_framing_limits(
                    [w EXCEPT !.sensor.mode.format = format,
                              !.sensor.mode.bit_depth =
                                  ar0822_get_bit_depth_id(code).id,
                              !.sensor.fmt_code = code])
                EXCEPT !.ret = OK],
         try_fmt |-> tf1, fmt |-> out]

\* ar0822_set_pad_format.  The local bit_depth is compared without ever
\* being assigned: its value is whatever the stack holds (ub_bit_depth).
ar0822_set_pad_format(w, tf, fmt, ub_bit_depth) ==
    IF fmt.pad >= 1 THEN [w |-> [w EXCEPT !.ret = EINVAL], try_fmt |-> tf, fmt |-> fmt]
    ELSE
    LET code   == ar0822_get_format_code(fmt.code)
        format == v4l2_find_nearest_size(
                      ar0822_pll_configs(w.sensor.pll_config).formats,
                      fmt.width, fmt.height)
        f      == ar0822_pll_configs(w.sensor.pll_config).formats[format]
        out    == [fmt EXCEPT !.width = f.width, !.height = f.height,
                              !.code = code]
    IN  IF fmt.which = "TRY"
        THEN [w |-> [w EXCEPT !.ret = OK],
              try_fmt |-> [width |-> out.width, height |-> out.height,
                           code |-> out.code],
              fmt |-> out]
        ELSE IF \/ w.sensor.mode.format # format
                \/ w.sensor.mode.bit_depth # ub_bit_depth
                \/ w.sensor.fmt_code # code
        THEN LET w1 == [w EXCEPT !.sensor.mode.format = format,
                                 !.sensor.mode.bit_depth =
                                     ar0822_get_bit_depth_id(code).id,
                                 !.sensor.fmt_code = code]
                 w2 == ar0822_set_framing_limits(w1)
             IN  [w |-> [w2 EXCEPT !.ret = OK], try_fmt |-> tf, fmt |-> out]
        ELSE [w |-> [w EXCEPT !.ret = OK], try_fmt |-> tf, fmt |-> out]

\* ar0822_get_pad_format
ar0822_get_pad_format(w, tf, fmt) ==
    IF fmt.pad >= 1 THEN [ret |-> EINVAL, try_fmt |-> tf, fmt |-> fmt]
    ELSE IF fmt.which = "TRY"
    THEN LET t == [tf EXCEPT !.code = ar0822_get_format_code(tf.code)]
         IN  [ret |-> OK, try_fmt |-> t,
              fmt |-> [fmt EXCEPT !.width = t.width, !.height = t.height,
                                  !.code = t.code]]
    ELSE [ret |-> OK, try_fmt |-> tf,
          fmt |-> [fmt EXCEPT !.width = ActiveFormat(w).width,
                              !.height = ActiveFormat(w).height,
                              !.code = ar0822_get_format_code(w.sensor.fmt_code)]]

(***************************************************************************)
(* Attach.                                                                 *)
(***************************************************************************)
\* ar0822_set_default_format
ar0822_set_default_format(s) ==
    [s EXCEPT !.mode = [format |-> 0, bit_depth |-> AR0822_BIT_DEPTH_ID_10BIT],
              !.fmt_code = ar0822_format_codes(0)]

\* ar0822_ctrls_init: the controls with their creation-time ranges, then the
\* framing limits of the default mode.
ar0822_ctrls_init(w) ==
    LET timing == ar0822_get_timing(w)
        exposure_max == timing.frame_length_lines_min - AR0822_EXPOSURE_MIN
        exposure_def == IF exposure_max < AR0822_EXPOSURE_DEFAULT
                        THEN exposure_max ELSE AR0822_EXPOSURE_DEFAULT
        colour == NewCtrl("INTEGER", AR0822_TEST_PATTERN_COLOR_MIN,
                          AR0822_TEST_PATTERN_COLOR_MAX, 1,
                          AR0822_TEST_PATTERN_COLOR_MAX, FALSE)
        c == [id \in CtrlIds |->
                CASE id = "HBLANK" -> NewCtrl("INTEGER", 0, 65535, 1, 0, TRUE)
                  [] id = "VBLANK" ->
                       NewCtrl("INTEGER", 0, 65535, AR0822_VBLANK_STEP, 0, FALSE)
                  [] id = "EXPOSURE" ->
                       NewCtrl("INTEGER", AR0822_EXPOSURE_MIN, exposure_max,
                               AR0822_EXPOSURE_STEP, exposure_def, FALSE)
                  [] id = "ANALOGUE_GAIN" ->
                       NewCtrl("INTEGER", AR0822_ANA_GAIN_MIN,
                               AR0822_ANA_GAIN_MAX, 1, AR0822_ANA_GAIN_MIN, FALSE)
                  [] id \in {"HFLIP", "VFLIP"} ->
                       NewCtrl("BOOLEAN", 0, 1, 1, 0, FALSE)
                  [] id = "TEST_PATTERN" -> NewCtrl("MENU", 0, 5, 1, 0, FALSE)
                  [] OTHER -> colour]
    IN  ar0822_set_framing_limits([w EXCEPT !.ctrls = c])

\* ar0822_parse_hw_config matching the catalog on the external clock alone.
ar0822_parse_hw_config_any_link(extclk_frequency, link_frequencies, num_data_lanes) ==
    LET hw == [num_data_lanes |-> num_data_lanes,
               lane_mode |-> IF num_data_lanes = 2
                             THEN AR0822_LANE_MODE_ID_2
                             ELSE AR0822_LANE_MODE_ID_4]
        found == {i \in DOMAIN ar0822_link_frequencies :
                     ar0822_extclk_frequencies[i] = extclk_frequency}
    IN  IF num_data_lanes \notin {2, 4} \/ Len(link_frequencies) = 0
           \/ found = {}
        THEN [ret |-> EINVAL, hw_config |-> [num_data_lanes |-> 0, lane_mode |-> 0],
              pll_config |-> NULL, checks |-> <<"num_data_lanes">>]
        ELSE [ret |-> OK, hw_config |-> hw,
              pll_config |-> CHOOSE i \in found : \A j \in found : i <= j,
              checks |-> <<"num_data_lanes", "nr_of_link_frequencies",
                           "ar0822_pll_configs">>]

\* ar0822_parse_hw_config taking every lane count that is not 2 as the
\* 4-lane mode.
ar0822_parse_hw_config_any_lanes(extclk_frequency, link_frequencies, num_data_lanes) ==
    LET hw == [num_data_lanes |-> num_data_lanes,
               lane_mode |-> IF num_data_lanes = 2
                             THEN AR0822_LANE_MODE_ID_2
                             ELSE AR0822_LANE_MODE_ID_4]
        found == {i \in DOMAIN ar0822_link_frequencies :
                     /\ ar0822_extclk_frequencies[i] = extclk_frequency
                     /\ ar0822_link_frequencies[i] = link_frequencies[1]}
    IN  IF Len(link_frequencies) = 0
        THEN [ret |-> EINVAL, hw_config |-> hw, pll_config |-> NULL,
              checks |-> <<"num_data_lanes", "nr_of_link_frequencies">>]
        ELSE IF found = {}
        THEN [ret |-> EINVAL, hw_config |-> hw, pll_config |-> NULL,
              checks |-> <<"num_data_lanes", "nr_of_link_frequencies",
                           "ar0822_pll_configs">>]
        ELSE [ret |-> OK, hw_config |-> hw,
              pll_config |-> CHOOSE i \in found : \A j \in found : i <= j,
              checks |-> <<"num_data_lanes", "nr_of_link_frequencies",
                           "ar0822_pll_configs">>]

\* ar0822_parse_hw_config looking for a catalog entry under every entry of
\* the link-frequency list.
ar0822_parse_hw_config_any_entry(extclk_frequency, link_frequencies, num_data_lanes) ==
    LET hw == [num_data_lanes |-> num_data_lanes,
               lane_mode |-> IF num_data_lanes = 2
                             THEN AR0822_LANE_MODE_ID_2
                             ELSE AR0822_LANE_MODE_ID_4]
        none == [num_data_lanes |-> 0, lane_mode |-> 0]
        found == {i \in DOMAIN ar0822_link_frequencies :
                     /\ ar0822_extclk_frequencies[i] = extclk_frequency
                     /\ \E k \in DOMAIN link_frequencies :
                            ar0822_link_frequencies[i] = link_frequencies[k]}
    IN  IF num_data_lanes \notin {2, 4}
        THEN [ret |-> EINVAL, hw_config |-> none, pll_config |-> NULL,
              checks |-> <<"num_data_lanes">>]
        ELSE IF Len(link_frequencies) = 0
        THEN [ret |-> EINVAL, hw_config |-> hw, pll_config |-> NULL,
              checks |-> <<"num_data_lanes", "nr_of_link_frequencies">>]
        ELSE IF found = {}
        THEN [ret |-> EINVAL, hw_config |-> hw, pll_config |-> NULL,
              checks |-> <<"num_data_lanes", "nr_of_link_frequencies",
                           "ar0822_pll_configs">>]
        ELSE [ret |-> OK, hw_config |-> hw,
              pll_config |-> CHOOSE i \in found : \A j \in found : i <= j,
              checks |-> <<"num_data_lanes", "nr_of_link_frequencies",
                           "ar0822_pll_configs">>]

\* ar0822_parse_hw_config past the regulators, the reset line, the clock
\* and the endpoint: the lane count, then the link-frequency list, then the
\* first catalog entry whose clock and link frequency both equal the
\* inputs.  checks lists what was looked at, in order.
ar0822_parse_hw_config(extclk_frequency, link_frequencies, num_data_lanes) ==
    LET hw == [num_data_lanes |-> num_data_lanes,
               lane_mode |-> IF num_data_lanes = 2
                             THEN AR0822_LANE_MODE_ID_2
                             ELSE AR0822_LANE_MODE_ID_4]
        none == [num_data_lanes |-> 0, lane_mode |-> 0]
        found == {i \in DOMAIN ar0822_link_frequencies :
                     /\ ar0822_extclk_frequencies[i] = extclk_frequency
                     /\ ar0822_link_frequencies[i] = link_frequencies[1]}
    IN  IF num_data_lanes \notin {2, 4}
        THEN [ret |-> EINVAL, hw_config |-> none, pll_config |-> NULL,
              checks |-> <<"num_data_lanes">>]
        ELSE IF Len(link_frequencies) = 0
        THEN [ret |-> EINVAL, hw_config |-> hw, pll_config |-> NULL,
              checks |-> <<"num_data_lanes", "nr_of_link_frequencies">>]
        ELSE IF found = {}
        THEN [ret |-> EINVAL, hw_config |-> hw, pll_config |-> NULL,
              checks |-> <<"num_data_lanes", "nr_of_link_frequencies",
                           "ar0822_pll_configs">>]
        ELSE [ret |-> OK, hw_config |-> hw,
              pll_config |-> CHOOSE i \in found : \A j \in found : i <= j,
              checks |-> <<"num_data_lanes", "nr_of_link_frequencies",
                           "ar0822_pll_configs">>]

\* The zeroed struct ar0822 of a device no driver is bound to.
Unbound ==
    [sensor |-> [pll_config |-> NULL,
                 hw_config |-> [num_data_lanes |-> 0, lane_mode |-> 0],
                 streaming |-> FALSE,
                 mode |-> [format |-> 0, bit_depth |-> 0],
                 fmt_code |-> ""],
     ctrls |-> <<>>,
     pm |-> [usage_count |-> 0, status |-> "suspended", enabled |-> FALSE],
     log |-> <<>>, fails |-> {}, ret |-> OK]

\* Runtime PM after ar0822_power_on, pm_runtime_set_active,
\* pm_runtime_get_noresume and pm_runtime_enable.
ProbePowered == [usage_count |-> 1, status |-> "active", enabled |-> TRUE]

\* The err_power_off exit of ar0822_probe: pm_runtime_disable,
\* pm_runtime_put_noidle, ar0822_power_off.
err_power_off(p) ==
    [p EXCEPT !.enabled = FALSE, !.usage_count = @ - 1,
              !.status = "suspended"]

\* ar0822_identify_model with the chip-version read returning read_ret and
\* delivering model_id.
ar0822_identify_model_any_chip(read_ret, model_id) == read_ret

ar0822_identify_model(read_ret, model_id) ==
    IF read_ret # OK THEN read_ret
    ELSE IF model_id # AR0822_MODEL_ID THEN ENODEV
    ELSE OK

\* ar0822_probe from ar0822_power_on's success to ar0822_subdev_init: the
\* device is powered with one reference held, the default format is set and
\* the controls are created.
ar0822_subdev_init(pll_config, hw_config, fails) ==
    ar0822_ctrls_init(
        World(ar0822_set_default_format(
                  [Unbound.sensor EXCEPT !.pll_config = pll_config,
                                         !.hw_config = hw_config]),
              <<>>, ProbePowered, fails))

\* ar0822_probe with a hardware configuration ar0822_parse_hw_config
\* accepted and a sensor that identified itself: the device is powered with
\* one reference held while the controls are created, then left to
\* autosuspend.
ar0822_probe(pll_config, num_data_lanes) ==
    [pm_runtime_put_autosuspend(
         ar0822_subdev_init(pll_config,
                            [num_data_lanes |-> num_data_lanes,
                             lane_mode |-> IF num_data_lanes = 2
                                           THEN AR0822_LANE_MODE_ID_2
                                           ELSE AR0822_LANE_MODE_ID_4],
                            {}))
     EXCEPT !.ret = OK]

\* The .probe callback for any devicetree input.  env holds what the
\* collaborators return: ar0822_power_on, the chip-version read of
\* ar0822_identify_model (its result and the value read), and the registration at the end of
\* ar0822_subdev_init.  steps lists the stages entered; a failed probe
\* leaves no driver state behind.
ProbeFailed(hw, ret, steps) ==
    [ret |-> ret, w |-> [Unbound EXCEPT !.ret = ret], steps |-> steps,
     hw_config |-> hw.hw_config, pll_config |-> hw.pll_config,
     checks |-> hw.checks]

ProbeDone(hw, env, w, steps) ==
    IF env.register # OK
    THEN [ProbeFailed(hw, env.register,
                      steps \o <<"ar0822_subdev_init", "ar0822_power_off">>)
          EXCEPT !.w.log = w.log, !.w.pm = err_power_off(w.pm)]
    ELSE [ret |-> OK,
          w |-> [pm_runtime_put_autosuspend(w) EXCEPT !.ret = OK],
          steps |-> steps \o <<"ar0822_subdev_init">>,
          hw_config |-> hw.hw_config, pll_config |-> hw.pll_config,
          checks |-> hw.checks]

ProbeWith(hw, env, fails) ==
    IF hw.ret # OK THEN ProbeFailed(hw, hw.ret, <<"ar0822_parse_hw_config">>)
    ELSE IF env.power_on # OK
    THEN ProbeFailed(hw, env.power_on,
                     <<"ar0822_parse_hw_config", "ar0822_power_on">>)
    ELSE IF ar0822_identify_model(env.read_ret, env.model_id) # OK
    THEN [ProbeFailed(hw, ar0822_identify_model(env.read_ret, env.model_id),
                      <<"ar0822_parse_hw_config", "ar0822_power_on",
                        "ar0822_identify_model", "ar0822_power_off">>)
          EXCEPT !.w.pm = err_power_off(ProbePowered)]
    ELSE ProbeDone(hw, env,
                   ar0822_subdev_init(hw.pll_config, hw.hw_config, fails),
                   <<"ar0822_parse_hw_config", "ar0822_power_on",
                     "ar0822_identify_model", "ar0822_set_default_format">>)

i2c_driver_probe(extclk_frequency, link_frequencies, num_data_lanes, env, fails) ==
    ProbeWith(ar0822_parse_hw_config(extclk_frequency, link_frequencies,
                                     num_data_lanes), env, fails)

(***************************************************************************)
(* Inputs.                                                                 *)
(***************************************************************************)
\* Values an application asks for, per control: on and above the ranges of
\* the catalog's modes, and an index past the test-pattern menu.
CtrlInputs(id) ==
    CASE id = "VBLANK" -> {24, 1632, 65535}
      [] id = "EXPOSURE" -> {4, 65535}
      [] id = "ANALOGUE_GAIN" -> {119}
      [] id \in {"HFLIP", "VFLIP"} -> {0, 1}
      [] id = "TEST_PATTERN" -> {5, 6}
      [] id = "HBLANK" -> {0}
      [] OTHER -> {0}

ReqSizes == {<<1920, 1080>>, <<3840, 2160>>, <<2880, 1620>>}

ReqCodes == {"SGRBG10_1X10", "SGRBG12_1X12", "SRGGB12_1X12"}

\* What the uninitialised bit_depth of ar0822_set_pad_format may hold: either
\* id, or anything else.
UninitBitDepth == {0, 1, 2}

\* Failure patterns of an operation that attempts n writes when none fails:
\* no failure, one failing attempt, or a dead bus.
FailChoices(n) ==
    IF n = 0 THEN {{}} ELSE {{}} \cup {{k} : k \in 1..n} \cup {1..(n + 2)}

Now == World(sensor, ctrls, pm, {})

\* The state an operation started from, kept with its result.
Pre == [sensor |-> sensor, ctrls |-> ctrls, pm |-> pm, try_fmt |-> try_fmt]

Idle == [op |-> "idle", ret |-> OK, arg |-> <<>>, out |-> <<>>, pre |-> <<>>]

(***************************************************************************)
(* Initial state: a successful probe has just returned, for each supported *)
(* clock/link configuration and lane count.                                *)
(***************************************************************************)
Init ==
    \E pll_config \in {AR0822_EXTCLK_LINK_ID_24_480, AR0822_EXTCLK_LINK_ID_24_960},
       num_data_lanes \in {2, 4} :
        \E w \in {ar0822_probe(pll_config, num_data_lanes)} :
            /\ sensor = w.sensor
            /\ ctrls = w.ctrls
            /\ pm = w.pm
            /\ try_fmt = [width |-> 0, height |-> 0, code |-> "0"]
            /\ log = w.log
            /\ last = [op |-> "probe", ret |-> w.ret, arg |-> <<>>, out |-> <<>>,
                       pre |-> <<>>]
            /\ nops = 0
            /\ mutex = NULL
            /\ tasks = NoTasks

(***************************************************************************)
(* Actions: one per subdevice operation, the return to the caller, and the *)
(* PM core's autosuspend.  An operation runs to completion under           *)
(* sensor->mutex; its writes and its result stay visible in log and last   *)
(* until the caller has taken them.                                        *)
(***************************************************************************)
Commit(w, l) ==
    /\ sensor' = w.sensor
    /\ ctrls' = w.ctrls
    /\ pm' = w.pm
    /\ log' = w.log
    /\ last' = l
    /\ nops' = nops + 1
    /\ UNCHANGED <<mutex, tasks>>

\* The failure patterns an action draws from: those of a faulty transport,
\* or none when the transport is reliable.
Faults(faulty, n) == IF faulty THEN FailChoices(n) ELSE {{}}

\* .s_stream
DoSetStream(faulty) ==
    \E enable \in {0, 1} :
        /\ (enable = 1 /\ ~sensor.streaming) => pm.usage_count < MaxUsage
        /\ \E fails \in Faults(faulty,
                               Len(ar0822_set_stream(Now, enable, FALSE).log)),
              resume_fails \in IF faulty /\ pm.status = "suspended"
                                  /\ enable = 1 /\ ~sensor.streaming
                               THEN BOOLEAN ELSE {FALSE} :
            \E w \in {ar0822_set_stream([Now EXCEPT !.fails = fails], enable,
                                        resume_fails)} :
                /\ Commit(w, [op |-> "s_stream", ret |-> w.ret,
                              arg |-> enable, out |-> <<>>, pre |-> Pre])
                /\ UNCHANGED try_fmt

\* VIDIOC_S_CTRL on one control, under the handler lock
DoSetControl(faulty, ids) ==
    \E id \in ids :
    \E val \in CtrlInputs(id) :
    \E fails \in Faults(faulty, Len(v4l2_s_ctrl(Now, id, val).log)) :
        \E w \in {v4l2_s_ctrl([Now EXCEPT !.fails = fails], id, val)} :
            /\ Commit(w, [op |-> "s_ctrl", ret |-> w.ret,
                          arg |-> [id |-> id, val |-> val], out |-> <<>>,
                          pre |-> Pre])
            /\ UNCHANGED try_fmt

\* .set_fmt
DoSetPadFormat(faulty, whiches, pads) ==
    \E size \in ReqSizes, code \in ReqCodes, which \in whiches, pad \in pads :
    \E ub \in IF which = "ACTIVE" /\ pad = 0 THEN UninitBitDepth ELSE {0} :
        LET fmt == [pad |-> pad, which |-> which, width |-> size[1],
                    height |-> size[2], code |-> code]
        IN  \E fails \in Faults(faulty,
                   Len(ar0822_set_pad_format(Now, try_fmt, fmt, ub).w.log)) :
              \E r \in {ar0822_set_pad_format([Now EXCEPT !.fails = fails],
                                               try_fmt, fmt, ub)} :
                  /\ Commit(r.w, [op |-> "set_fmt", ret |-> r.w.ret,
                                  arg |-> fmt, out |-> r.fmt, pre |-> Pre])
                  /\ try_fmt' = r.try_fmt

CanCall == last = Idle /\ nops < MaxOps

SetStream == CanCall /\ DoSetStream(TRUE)

SetControl == CanCall /\ DoSetControl(TRUE, CtrlIds)

SetPadFormat == CanCall /\ DoSetPadFormat(TRUE, {"TRY", "ACTIVE"}, {0, 1})

\* .get_fmt
GetPadFormat ==
    /\ CanCall
    /\ \E which \in {"TRY", "ACTIVE"}, pad \in {0, 1} :
        LET fmt == [pad |-> pad, which |-> which, width |-> 0, height |-> 0,
                    code |-> "0"]
            r == ar0822_get_pad_format(Now, try_fmt, fmt)
        IN  /\ Commit(Now, [op |-> "get_fmt", ret |-> r.ret, arg |-> fmt,
                            out |-> r.fmt, pre |-> Pre])
            /\ try_fmt' = r.try_fmt

\* The operation's caller takes the result.
Return ==
    /\ last # Idle
    /\ last' = Idle
    /\ log' = <<>>
    /\ UNCHANGED <<sensor, ctrls, pm, try_fmt, nops, mutex, tasks>>

\* ar0822_runtime_suspend, run by the PM core once no reference is held and
\* the autosuspend delay has passed.
RuntimeSuspend ==
    /\ last = Idle
    /\ pm.usage_count = 0
    /\ pm.status = "active"
    /\ pm' = [pm EXCEPT !.status = "suspended"]
    /\ UNCHANGED <<sensor, ctrls, try_fmt, log, last, nops, mutex, tasks>>

Next ==
    \/ SetStream
    \/ SetControl
    \/ SetPadFormat
    \/ GetPadFormat
    \/ Return
    \/ RuntimeSuspend

Spec == Init /\ [][Next]_vars

(***************************************************************************)
(* The same operations over a transport on which no register access fails  *)
(* and with the framing-related inputs only (active formats, vertical      *)
(* blanking, exposure, streaming), explored deeper.                        *)
(***************************************************************************)
CanCallFraming == last = Idle /\ nops < MaxFramingOps

FramingSetStream == CanCallFraming /\ DoSetStream(FALSE)

FramingSetControl == CanCallFraming /\ DoSetControl(FALSE, {"VBLANK", "EXPOSURE"})

FramingSetPadFormat == CanCallFraming /\ DoSetPadFormat(FALSE, {"ACTIVE"}, {0})

NextFraming ==
    \/ FramingSetStream
    \/ FramingSetControl
    \/ FramingSetPadFormat
    \/ Return
    \/ RuntimeSuspend

SpecFraming == Init /\ [][NextFraming]_vars


(***************************************************************************)
(* Attach from any devicetree input: the device starts unbound, a probe    *)
(* either binds it or fails and leaves it unbound, and a bound device      *)
(* takes the operations above.                                             *)
(***************************************************************************)
ExtclkInputs == {24000000, 27000000}

LinkFrequencyInputs ==
    {<<>>, <<480000000>>, <<960000000>>, <<720000000>>,
     <<960000000, 480000000>>, <<720000000, 480000000>>,
     <<480000000, 960000000>>}

LaneInputs == {1, 2, 3, 4}

\* What the collaborators of a probe can answer.
ProbeEnvs ==
    [power_on : {OK, EPOWER}, read_ret : {OK, EIO},
     model_id : {AR0822_MODEL_ID, 0, 65535},
     register : {OK, ENOMEM}]

ProbeEnvOk ==
    [power_on |-> OK, read_ret |-> OK, model_id |-> AR0822_MODEL_ID,
     register |-> OK]

InitAttach ==
    /\ sensor = Unbound.sensor
    /\ ctrls = Unbound.ctrls
    /\ pm = Unbound.pm
    /\ try_fmt = [width |-> 0, height |-> 0, code |-> "0"]
    /\ log = <<>>
    /\ last = Idle
    /\ nops = 0
    /\ mutex = NULL
    /\ tasks = NoTasks

Bound == sensor.pll_config # NULL

\* .probe
Probe ==
    /\ ~Bound
    /\ last = Idle
    /\ \E extclk_frequency \in ExtclkInputs,
          link_frequencies \in LinkFrequencyInputs,
          num_data_lanes \in LaneInputs :
        \E hw \in {ar0822_parse_hw_config(extclk_frequency, link_frequencies,
                                          num_data_lanes)} :
        \E env \in IF hw.ret = OK THEN ProbeEnvs ELSE {ProbeEnvOk} :
        \E fails \in IF hw.ret = OK /\ env.power_on = OK
                         /\ ar0822_identify_model(env.read_ret,
                                                  env.model_id) = OK
                      THEN FailChoices(Len(ProbeWith(hw, env, {}).w.log))
                      ELSE {{}} :
        \E r \in {ProbeWith(hw, env, fails)} :
            /\ sensor' = r.w.sensor
            /\ ctrls' = r.w.ctrls
            /\ pm' = r.w.pm
            /\ log' = r.w.log
            /\ last' = [op |-> "probe", ret |-> r.ret,
                        arg |-> [extclk_frequency |-> extclk_frequency,
                                 link_frequencies |-> link_frequencies,
                                 num_data_lanes |-> num_data_lanes,
                                 env |-> env],
                        out |-> [steps |-> r.steps, checks |-> r.checks,
                                 hw_config |-> r.hw_config,
                                 pll_config |-> r.pll_config],
                        pre |-> Pre]
            /\ nops' = 0
            /\ UNCHANGED <<try_fmt, mutex, tasks>>

CanCallBound == Bound /\ last = Idle /\ nops < MaxAttachOps

BoundSetStream == CanCallBound /\ DoSetStream(TRUE)

BoundSetControl == CanCallBound /\ DoSetControl(TRUE, CtrlIds)

BoundSetPadFormat == CanCallBound /\ DoSetPadFormat(TRUE, {"TRY", "ACTIVE"}, {0, 1})

BoundRuntimeSuspend == Bound /\ RuntimeSuspend

NextAttach ==
    \/ Probe
    \/ BoundSetStream
    \/ BoundSetControl
    \/ BoundSetPadFormat
    \/ Return
    \/ BoundRuntimeSuspend

SpecAttach == InitAttach /\ [][NextAttach]_vars

(***************************************************************************)
(* The nearest-size resolution on its own, over the catalogs of both       *)
(* driver revisions, next to the format operations that use it.            *)
(***************************************************************************)
Catalogs ==
    {ar0822_formats_24_480, ar0822_formats_24_960,
     ar0822_modes_24_480, ar0822_modes_24_960}

SizeInputs == {0, 1080, 1620, 1920, 2160, 2880, 3840, 4096}

\* v4l2_find_nearest_size as ar0822_set_pad_format calls it
FindNearestSize ==
    /\ CanCall
    /\ \E formats \in Catalogs, width \in SizeInputs, height \in SizeInputs :
        \E format \in {v4l2_find_nearest_size(formats, width, height)} :
            /\ last' = [op |-> "find_nearest_size", ret |-> OK,
                        arg |-> [formats |-> formats, width |-> width,
                                 height |-> height],
                        out |-> [format |-> format], pre |-> Pre]
            /\ nops' = nops + 1
            /\ log' = <<>>
            /\ UNCHANGED <<sensor, ctrls, pm, try_fmt, mutex, tasks>>

NearestSetPadFormat == CanCall /\ DoSetPadFormat(FALSE, {"TRY", "ACTIVE"}, {0})

NextNearest ==
    \/ FindNearestSize
    \/ NearestSetPadFormat
    \/ Return

SpecNearest == Init /\ [][NextNearest]_vars

(***************************************************************************)
(* Properties.                                                             *)
(***************************************************************************)
\* The result state of a stream enable that started from a stopped sensor.
EnableRan == last.op = "s_stream" /\ last.arg = 1 /\ ~last.pre.sensor.streaming

\* The result state of a stream disable that started from a streaming sensor.
DisableRan == last.op = "s_stream" /\ last.arg = 0 /\ last.pre.sensor.streaming

\* The register/value pairs of a write log, without the outcome.
Writes(lg) == [i \in 1..Len(lg) |-> Reg(lg[i].reg, lg[i].val)]

\* seq occupies positions p .. p + Len(seq) - 1 of ws.
BlockAt(ws, seq, p) ==
    /\ p + Len(seq) - 1 <= Len(ws)
    /\ \A i \in 1..Len(seq) : ws[p + i - 1] = seq[i]

\* The order of a whole enable sequence for device state s in the writes ws:
\* the on/off pulse first; then, one after another, the PLL sequence, the
\* MIPI timing sequence of the bit depth, the common registers, the mode's
\* register sequence, the line length of the mode's timing and the frame
\* length fl; stream-on last, with no other mode-select write in between.
EnableOrder(ws, s, fl) ==
    LET n      == Len(ws)
        cfg    == ar0822_pll_configs(s.pll_config)
        format == cfg.formats[s.mode.format]
        timing == format.timing[<<s.hw_config.lane_mode, s.mode.bit_depth>>]
        mipi   == cfg.regs_mipi[s.mode.bit_depth]
    IN  /\ n >= 3
        /\ ws[1] = Reg("MODE_SELECT", AR0822_MODE_SELECT_STREAM_ON)
        /\ ws[2] = Reg("MODE_SELECT", AR0822_MODE_SELECT_STREAM_OFF)
        /\ ws[n] = Reg("MODE_SELECT", AR0822_MODE_SELECT_STREAM_ON)
        /\ \A i \in 3..(n - 1) : ws[i].reg # "MODE_SELECT"
        /\ \E p1 \in 3..n : /\ BlockAt(ws, cfg.regs_pll, p1)
           /\ \E p2 \in (p1 + Len(cfg.regs_pll))..n : /\ BlockAt(ws, mipi, p2)
           /\ \E p3 \in (p2 + Len(mipi))..n : /\ BlockAt(ws, ar0822_regs_common, p3)
           /\ \E p4 \in (p3 + Len(ar0822_regs_common))..n :
                 /\ BlockAt(ws, format.reg_sequence, p4)
           /\ \E p5 \in (p4 + Len(format.reg_sequence))..n :
                 /\ ws[p5] = Reg("LINE_LENGTH_PCK", timing.line_length_pck_min)
           /\ \E p6 \in (p5 + 1)..(n - 1) :
                 /\ ws[p6] = Reg("FRAME_LENGTH_LINES", fl)
                 /\ \A q \in 3..(n - 1) :
                        ws[q].reg = "FRAME_LENGTH_LINES" => q = p6

\* C1: a stream enable issued while the sensor streams, and a stream disable
\* issued while it is stopped, return success and change nothing: no register
\* write, no power resume, no reference taken or dropped.  Two enables in a
\* row therefore program the hardware once.
C1_RedundantSetStreamIsNoOp ==
    (last.op = "s_stream" /\ last.pre.sensor.streaming = (last.arg = 1)) =>
        /\ last.ret = OK
        /\ log = <<>>
        /\ pm = last.pre.pm
        /\ sensor = last.pre.sensor
        /\ ctrls = last.pre.ctrls

\* An enable has returned on a sensor that was already streaming.
C1_Witness ==
    last.op = "s_stream" /\ last.arg = 1 /\ last.pre.sensor.streaming

\* C2 (as the code has it): a successful enable writes the on/off pulse,
\* the PLL sequence, the MIPI timing of the bit depth, the common registers,
\* the mode registers, the line length of the mode's timing, then among the
\* re-applied controls the frame length = active height + current vertical
\* blanking, and stream-on as its last write.
C2_EnableOrder ==
    (EnableRan /\ last.ret = OK) =>
        EnableOrder(Writes(log), sensor,
                    ActiveFormat(Now).height + ctrls["VBLANK"].cur)

\* A successful enable has returned with a vertical blanking above the
\* mode's minimum.
C2_Witness ==
    /\ EnableRan /\ last.ret = OK
    /\ ActiveFormat(Now).height + ctrls["VBLANK"].cur
           > ar0822_get_timing(Now).frame_length_lines_min

\* C2 as stated: the same order, with the frame length written being the
\* frame_length_lines_min of Timing[lane_mode][bit_depth].
C2_FrameLengthFromTiming ==
    (EnableRan /\ last.ret = OK) =>
        EnableOrder(Writes(log), sensor,
                    ar0822_get_timing(Now).frame_length_lines_min)


C4_FailedEnableReleasesPower ==
    (EnableRan /\ last.ret = EIO) =>
        pm.usage_count = last.pre.pm.usage_count

\* C5: a disable issued while streaming writes mode-select = standby and
\* nothing else, returns success whether or not the write failed, leaves
\* streaming false and the flips ungrabbed, and drops exactly one power
\* reference.
C5_DisableAlwaysCompletes ==
    DisableRan =>
        /\ last.ret = OK
        /\ Writes(log) = <<Reg("MODE_SELECT", AR0822_MODE_SELECT_STREAM_OFF)>>
        /\ ~sensor.streaming
        /\ ~ctrls["HFLIP"].grabbed /\ ~ctrls["VFLIP"].grabbed
        /\ pm.usage_count = last.pre.pm.usage_count - 1
        /\ pm.usage_count >= 0

\* A disable has returned whose standby write failed.
C5_Witness ==
    DisableRan /\ log # <<>> /\ ~log[1].ok


\* C6 as stated: after a successful set of the vertical blanking to a value
\* v of its legal range, the exposure maximum is active height + v -
\* EXPOSURE_MIN and the exposure value is not above it.
C6_VblankSetsExposureMax ==
    (/\ last.op = "s_ctrl" /\ last.arg.id = "VBLANK" /\ last.ret = OK
     /\ last.arg.val >= last.pre.ctrls["VBLANK"].minimum
     /\ last.arg.val <= last.pre.ctrls["VBLANK"].maximum
     /\ (last.arg.val - last.pre.ctrls["VBLANK"].minimum)
            % last.pre.ctrls["VBLANK"].step = 0) =>
        /\ ctrls["EXPOSURE"].maximum =
               ActiveFormat(Now).height + last.arg.val - AR0822_EXPOSURE_MIN
        /\ ctrls["EXPOSURE"].cur <= ctrls["EXPOSURE"].maximum

\* C7 as stated: when no register write fails, the exposure range is always
\* [EXPOSURE_MIN, active height + vertical blanking - EXPOSURE_MIN].
C7_ExposureRangeFollowsFraming ==
    /\ ctrls["EXPOSURE"].minimum = AR0822_EXPOSURE_MIN
    /\ ctrls["EXPOSURE"].maximum =
           ActiveFormat(Now).height + ctrls["VBLANK"].cur - AR0822_EXPOSURE_MIN

\* C8: the flips are grabbed exactly while the sensor streams; a flip set
\* while streaming is refused, writes no register and leaves both flip
\* values and the sensor state, format code included, as they were; after a
\* disable either flip can be set again.
C8_FlipLock ==
    /\ ctrls["HFLIP"].grabbed = sensor.streaming
    /\ ctrls["VFLIP"].grabbed = sensor.streaming
    /\ (/\ last.op = "s_ctrl" /\ last.arg.id \in {"HFLIP", "VFLIP"}
        /\ last.pre.sensor.streaming) =>
            /\ last.ret = EBUSY
            /\ log = <<>>
            /\ ctrls["HFLIP"].cur = last.pre.ctrls["HFLIP"].cur
            /\ ctrls["VFLIP"].cur = last.pre.ctrls["VFLIP"].cur
            /\ sensor = last.pre.sensor
    /\ DisableRan =>
           \A id \in {"HFLIP", "VFLIP"} :
               \E w \in {v4l2_s_ctrl(Now, id, 1 - ctrls[id].cur)} :
                   /\ w.ret = OK
                   /\ w.ctrls[id].cur = 1 - ctrls[id].cur

\* A set of the horizontal flip to a new value has returned on a streaming
\* sensor.
C8_Witness ==
    /\ last.op = "s_ctrl" /\ last.arg.id = "HFLIP"
    /\ last.pre.sensor.streaming
    /\ last.arg.val # last.pre.ctrls["HFLIP"].cur

\* C9 as stated: a set of the active format issued while the sensor streams
\* leaves the mode, the format code and the framing limits unchanged.
C9_NoModeChangeWhileStreaming ==
    (/\ last.op = "set_fmt" /\ last.arg.which = "ACTIVE"
     /\ last.pre.sensor.streaming) =>
        /\ sensor.mode = last.pre.sensor.mode
        /\ sensor.fmt_code = last.pre.sensor.fmt_code
        /\ \A id \in {"VBLANK", "HBLANK", "EXPOSURE"} :
               /\ ctrls[id].minimum = last.pre.ctrls[id].minimum
               /\ ctrls[id].maximum = last.pre.ctrls[id].maximum
               /\ ctrls[id].cur = last.pre.ctrls[id].cur

\* C10 as stated: a get of the active format after a set of it returns the
\* width, height and code the set returned; the size is a catalog entry
\* nearest to the request; the code is the Bayer order of the mode's bit
\* depth for the current flips.
C10_FormatRoundTrip ==
    (/\ last.op = "set_fmt" /\ last.arg.which = "ACTIVE" /\ last.arg.pad = 0
     /\ last.ret = OK) =>
        LET g == ar0822_get_pad_format(Now, try_fmt,
                     [pad |-> 0, which |-> "ACTIVE", width |-> 0,
                      height |-> 0, code |-> "0"])
            formats == ar0822_pll_configs(sensor.pll_config).formats
            error(f) == Abs(f.width - last.arg.width)
                        + Abs(f.height - last.arg.height)
            i == (IF ctrls["VFLIP"].cur # 0 THEN 2 ELSE 0)
                 + (IF ctrls["HFLIP"].cur # 0 THEN 1 ELSE 0)
        IN  /\ g.ret = OK
            /\ g.fmt.width = last.out.width
            /\ g.fmt.height = last.out.height
            /\ g.fmt.code = last.out.code
            /\ \E k \in DOMAIN formats :
                   /\ formats[k].width = g.fmt.width
                   /\ formats[k].height = g.fmt.height
                   /\ \A j \in DOMAIN formats : error(formats[k]) <= error(formats[j])
            /\ g.fmt.code =
                   IF sensor.mode.bit_depth = AR0822_BIT_DEPTH_ID_12BIT
                   THEN ar0822_format_codes_12bit[i + 1]
                   ELSE ar0822_format_codes_10bit[i + 1]

\* C11 as stated: the code a set or a get of the active format reports is
\* entry vflip<<1 | hflip of the four Bayer orders of the mode's bit depth.
C11_CodeIndexedByFlips ==
    (/\ last.op \in {"set_fmt", "get_fmt"} /\ last.arg.which = "ACTIVE"
     /\ last.arg.pad = 0 /\ last.ret = OK) =>
        \E i \in {(IF ctrls["VFLIP"].cur # 0 THEN 2 ELSE 0)
                  + (IF ctrls["HFLIP"].cur # 0 THEN 1 ELSE 0)} :
            last.out.code =
                IF sensor.mode.bit_depth = AR0822_BIT_DEPTH_ID_12BIT
                THEN ar0822_format_codes_12bit[i + 1]
                ELSE ar0822_format_codes_10bit[i + 1]

\* C12: a probe selects a clock/link configuration exactly when the lane
\* count is 2 or 4 and a catalog entry has the probe's external clock and
\* first link frequency; there is then one such entry and it is the one
\* selected (24 MHz with 960 Mbps on 2 lanes selects the 24/960 entry); any
\* other probe fails with -EINVAL in ar0822_parse_hw_config, selects nothing
\* and leaves the device unbound.
C12_ModeResolver ==
    last.op = "probe" =>
        LET a == last.arg
            catalog == {[extclk |-> 24000000, link |-> 480000000,
                         id |-> AR0822_EXTCLK_LINK_ID_24_480],
                        [extclk |-> 24000000, link |-> 960000000,
                         id |-> AR0822_EXTCLK_LINK_ID_24_960]}
            hits == {e \in catalog : /\ Len(a.link_frequencies) > 0
                                     /\ e.extclk = a.extclk_frequency
                                     /\ e.link = a.link_frequencies[1]}
            resolvable == hits # {} /\ a.num_data_lanes \in {2, 4}
        IN  /\ (last.out.pll_config # NULL) <=> resolvable
            /\ resolvable =>
                   /\ Cardinality(hits) = 1
                   /\ \A e \in hits : last.out.pll_config = e.id
                   /\ last.ret = OK => sensor.pll_config = last.out.pll_config
            /\ ~resolvable =>
                   /\ last.ret = EINVAL
                   /\ last.out.steps = <<"ar0822_parse_hw_config">>
                   /\ ~Bound
            /\ (/\ a.extclk_frequency = 24000000 /\ a.num_data_lanes = 2
                /\ Len(a.link_frequencies) > 0
                /\ a.link_frequencies[1] = 960000000) =>
                   last.out.pll_config = AR0822_EXTCLK_LINK_ID_24_960

\* A probe given 24 MHz, 960 Mbps ahead of 480 Mbps, and 2 lanes has bound
\* the device.
C12_Witness ==
    /\ last.op = "probe" /\ last.ret = OK
    /\ last.arg.num_data_lanes = 2
    /\ last.arg.link_frequencies = <<960000000, 480000000>>
    /\ sensor.pll_config = AR0822_EXTCLK_LINK_ID_24_960

\* C13: a probe with a lane count other than 2 or 4 fails with -EINVAL
\* having looked at the lane count only; a probe with 2 or 4 lanes and no
\* link frequency fails with -EINVAL without consulting the catalog; in both
\* cases nothing is powered on, no register is accessed and the device stays
\* unbound.  2 lanes are lane mode AR0822_LANE_MODE_ID_2, 4 lanes
\* AR0822_LANE_MODE_ID_4.
C13_LanesAndLinkListChecked ==
    last.op = "probe" =>
        /\ last.arg.num_data_lanes \notin {2, 4} =>
               /\ last.ret = EINVAL
               /\ last.out.checks = <<"num_data_lanes">>
               /\ last.out.steps = <<"ar0822_parse_hw_config">>
               /\ log = <<>>
               /\ ~Bound /\ pm = Unbound.pm
        /\ (/\ last.arg.num_data_lanes \in {2, 4}
            /\ last.arg.link_frequencies = <<>>) =>
               /\ last.ret = EINVAL
               /\ last.out.checks = <<"num_data_lanes", "nr_of_link_frequencies">>
               /\ last.out.steps = <<"ar0822_parse_hw_config">>
               /\ log = <<>>
               /\ ~Bound /\ pm = Unbound.pm
        /\ last.arg.num_data_lanes = 2 =>
               last.out.hw_config.lane_mode = AR0822_LANE_MODE_ID_2
        /\ last.arg.num_data_lanes = 4 =>
               last.out.hw_config.lane_mode = AR0822_LANE_MODE_ID_4
        /\ Bound => sensor.hw_config = last.out.hw_config

\* A probe with 3 lanes and a catalog clock and link frequency has failed.
C13_Witness ==
    /\ last.op = "probe"
    /\ last.arg.num_data_lanes = 3
    /\ last.arg.extclk_frequency = 24000000
    /\ last.arg.link_frequencies = <<480000000>>
    /\ last.ret = EINVAL

\* C14 as stated: after a successful probe the active format is 3840x2160
\* and the vertical blanking is the frame_length_lines_min of the lane mode
\* and bit depth minus 2160.
C14_DefaultIsMaxResolution ==
    (last.op = "probe" /\ last.ret = OK) =>
        /\ ActiveFormat(Now).width = 3840
        /\ ActiveFormat(Now).height = 2160
        /\ ctrls["VBLANK"].cur =
               ar0822_get_timing(Now).frame_length_lines_min - 2160

\* C15: a set of the active format that changes the mode's format or bit
\* depth leaves the vertical blanking with the range
\* [frame_length_lines_min - height, VTS_MAX - height] of the new mode's
\* timing and with the value frame_length_lines_min - height.
C15_VblankResetOnModeChange ==
    (/\ last.op = "set_fmt" /\ last.arg.which = "ACTIVE" /\ last.ret = OK
     /\ sensor.mode # last.pre.sensor.mode) =>
        \E vb \in {ar0822_get_timing(Now).frame_length_lines_min
                   - ActiveFormat(Now).height} :
            /\ ctrls["VBLANK"].minimum = vb
            /\ ctrls["VBLANK"].maximum = AR0822_VTS_MAX - ActiveFormat(Now).height
            /\ ctrls["VBLANK"].cur = vb

\* C16 as stated: the horizontal blanking is a fixed point: its minimum,
\* maximum and value all equal line_length_pck_min - width of the active
\* format, lane mode and bit depth, after attach and after every
\* recomputation of the framing limits.
C16_HblankFixedPoint ==
    \E hblank \in {ar0822_get_timing(Now).line_length_pck_min
                   - ActiveFormat(Now).width} :
        /\ ctrls["HBLANK"].minimum = hblank
        /\ ctrls["HBLANK"].maximum = hblank
        /\ ctrls["HBLANK"].cur = hblank

\* The value of the last write to register r among the first n entries of
\* the write log lg, or NULL when r is not written there.
LastWritten(lg, n, r) ==
    IF \E i \in 1..n : lg[i].reg = r
    THEN lg[CHOOSE i \in 1..n :
                /\ lg[i].reg = r
                /\ \A j \in (i + 1)..n : lg[j].reg # r].val
    ELSE NULL

\* C17: a set of a writable control to an acceptable value on a device that
\* is not in use succeeds, writes no register and keeps the value; a
\* successful stream enable then ends with stream-on, before which each
\* control's register has been written with its current value: frame length
\* = height + vblank, coarse integration time, gain, orientation = hflip |
\* vflip << 1, the test pattern's register value, and the four colours.
C17_StagedControlsAppliedOnEnable ==
    /\ (/\ last.op = "s_ctrl" /\ last.arg.id # "HBLANK"
        /\ ~pm_runtime_get_if_in_use(
              World(last.pre.sensor, last.pre.ctrls, last.pre.pm, {}))
        /\ last.arg.val >= last.pre.ctrls[last.arg.id].minimum
        /\ last.arg.val <= last.pre.ctrls[last.arg.id].maximum
        /\ (last.arg.val - last.pre.ctrls[last.arg.id].minimum)
               % last.pre.ctrls[last.arg.id].step = 0) =>
            /\ last.ret = OK
            /\ log = <<>>
            /\ ctrls[last.arg.id].cur = last.arg.val
    /\ (EnableRan /\ last.ret = OK) =>
        \E n \in {Len(log) - 1} :
            /\ log[n + 1].reg = "MODE_SELECT"
            /\ log[n + 1].val = AR0822_MODE_SELECT_STREAM_ON
            /\ LastWritten(log, n, "FRAME_LENGTH_LINES") =
                   ActiveFormat(Now).height + ctrls["VBLANK"].cur
            /\ LastWritten(log, n, "COARSE_INTEGRATION_TIME") =
                   ctrls["EXPOSURE"].cur
            /\ LastWritten(log, n, "SENSOR_GAIN") = ctrls["ANALOGUE_GAIN"].cur
            /\ LastWritten(log, n, "IMAGE_ORIENTATION") =
                   ctrls["HFLIP"].cur + 2 * ctrls["VFLIP"].cur
            /\ LastWritten(log, n, "TEST_PATTERN_MODE") =
                   (IF ctrls["TEST_PATTERN"].cur = 5 THEN 256
                    ELSE ctrls["TEST_PATTERN"].cur)
            /\ LastWritten(log, n, "TEST_DATA_RED") = ctrls["TEST_PATTERN_RED"].cur
            /\ LastWritten(log, n, "TEST_DATA_GREENR") =
                   ctrls["TEST_PATTERN_GREENR"].cur
            /\ LastWritten(log, n, "TEST_DATA_BLUE") = ctrls["TEST_PATTERN_BLUE"].cur
            /\ LastWritten(log, n, "TEST_DATA_GREENB") =
                   ctrls["TEST_PATTERN_GREENB"].cur

\* A stream enable has succeeded on a sensor whose gain was set, while it
\* was not in use, to a value other than the default.
C17_Witness ==
    /\ EnableRan /\ last.ret = OK
    /\ last.pre.pm.usage_count = 0
    /\ ctrls["ANALOGUE_GAIN"].cur = AR0822_ANA_GAIN_MAX

\* C18: a set of the TRY format stores what it returns in the file handle's
\* format only: the sensor state (mode, code, streaming), every control, the
\* power state and the registers are as before, and a get of the active
\* format returns what it returned before the call.
C18_TryFormatIsScratchOnly ==
    (last.op = "set_fmt" /\ last.arg.which = "TRY") =>
        /\ sensor = last.pre.sensor
        /\ ctrls = last.pre.ctrls
        /\ pm = last.pre.pm
        /\ log = <<>>
        /\ (last.arg.pad = 0) =>
               /\ last.ret = OK
               /\ try_fmt = [width |-> last.out.width,
                             height |-> last.out.height,
                             code |-> last.out.code]
        /\ \E get \in {[pad |-> 0, which |-> "ACTIVE", width |-> 0,
                        height |-> 0, code |-> "0"]} :
               ar0822_get_pad_format(Now, try_fmt, get).fmt =
                   ar0822_get_pad_format(
                       World(last.pre.sensor, last.pre.ctrls, last.pre.pm, {}),
                       last.pre.try_fmt, get).fmt

\* A set of the TRY format has resolved to a size and a code other than the
\* active ones.
C18_Witness ==
    /\ last.op = "set_fmt" /\ last.arg.which = "TRY" /\ last.arg.pad = 0
    /\ last.out.width # ActiveFormat(Now).width
    /\ last.out.code # sensor.fmt_code
    /\ try_fmt.width = last.out.width

\* C19 as stated: a set of the active format that resolves to the current
\* format, bit depth and code leaves the mode and the values and ranges of
\* the vertical blanking, horizontal blanking and exposure as they were.
C19_SameModeKeepsFraming ==
    (/\ last.op = "set_fmt" /\ last.arg.which = "ACTIVE" /\ last.arg.pad = 0
     /\ last.ret = OK
     /\ last.out.width = ActiveFormat(World(last.pre.sensor, last.pre.ctrls,
                                            last.pre.pm, {})).width
     /\ last.out.height = ActiveFormat(World(last.pre.sensor, last.pre.ctrls,
                                             last.pre.pm, {})).height
     /\ last.out.code = last.pre.sensor.fmt_code
     /\ ar0822_get_bit_depth_id(last.out.code).id = last.pre.sensor.mode.bit_depth) =>
        /\ sensor = last.pre.sensor
        /\ \A id \in {"VBLANK", "HBLANK", "EXPOSURE"} :
               /\ ctrls[id].minimum = last.pre.ctrls[id].minimum
               /\ ctrls[id].maximum = last.pre.ctrls[id].maximum
               /\ ctrls[id].cur = last.pre.ctrls[id].cur

\* formats[k] is an entry of the catalog nearest to width x height, and the
\* entry of exactly that size when the catalog has one.
NearestEntry(formats, k, width, height) ==
    /\ k \in DOMAIN formats
    /\ \A j \in DOMAIN formats :
           Abs(formats[k].width - width) + Abs(formats[k].height - height)
               <= Abs(formats[j].width - width) + Abs(formats[j].height - height)
    /\ (\E j \in DOMAIN formats :
            formats[j].width = width /\ formats[j].height = height) =>
           (formats[k].width = width /\ formats[k].height = height)

\* C20: the nearest-size resolution always yields an entry of the catalog
\* it is given, one with the smallest size error; a request for the size of
\* an entry yields that entry; a catalog with one entry yields that entry
\* for every request, so 1920x1080 against the catalog holding only
\* 3840x2160 yields 3840x2160.  A set of a format returns the size of such
\* an entry of the configuration's catalog.
C20_NearestSizeResolution ==
    /\ last.op = "find_nearest_size" =>
           /\ NearestEntry(last.arg.formats, last.out.format, last.arg.width,
                           last.arg.height)
           /\ Cardinality(DOMAIN last.arg.formats) = 1 =>
                  last.out.format \in DOMAIN last.arg.formats
           /\ (/\ last.arg.formats = [i \in 0..0 |->
                                         [width |-> 3840, height |-> 2160]]
               /\ last.arg.width = 1920 /\ last.arg.height = 1080) =>
                  /\ last.arg.formats[last.out.format].width = 3840
                  /\ last.arg.formats[last.out.format].height = 2160
    /\ (last.op = "set_fmt" /\ last.ret = OK) =>
           \E k \in DOMAIN ar0822_pll_configs(sensor.pll_config).formats :
               /\ NearestEntry(ar0822_pll_configs(sensor.pll_config).formats, k,
                               last.arg.width, last.arg.height)
               /\ ar0822_pll_configs(sensor.pll_config).formats[k].width =
                      last.out.width
               /\ ar0822_pll_configs(sensor.pll_config).formats[k].height =
                      last.out.height
               /\ last.arg.which = "ACTIVE" => sensor.mode.format = k

\* The resolution of 1920x1080 against the catalog holding only 3840x2160
\* has returned.
C20_Witness ==
    /\ last.op = "find_nearest_size"
    /\ last.arg.formats = ar0822_modes_24_480
    /\ last.arg.width = 1920 /\ last.arg.height = 1080
    /\ last.out.format = 0

\* C21: a set of a format whose code is not in ar0822_format_codes returns
\* 0 and the code of the default bit depth, and an ACTIVE one leaves the
\* mode at that bit depth; in every state the mode's bit depth is one of
\* the two ids and the stored code is the table's code for it.
C21_UnknownCodeFallsBack ==
    /\ sensor.mode.bit_depth \in
           {AR0822_BIT_DEPTH_ID_10BIT, AR0822_BIT_DEPTH_ID_12BIT}
    /\ sensor.fmt_code =
           (IF sensor.mode.bit_depth = AR0822_BIT_DEPTH_ID_10BIT
            THEN "SGRBG10_1X10" ELSE "SGRBG12_1X12")
    /\ (/\ last.op = "set_fmt" /\ last.arg.pad = 0
        /\ last.arg.code \notin {"SGRBG10_1X10", "SGRBG12_1X12"}) =>
            /\ last.ret = OK
            /\ last.out.code = "SGRBG10_1X10"
            /\ last.arg.which = "ACTIVE" =>
                   sensor.mode.bit_depth = AR0822_BIT_DEPTH_ID_10BIT
            /\ last.arg.which = "TRY" => try_fmt.code = "SGRBG10_1X10"

\* A set of the active format with a code outside the table has returned
\* on a sensor that was in the 12-bit mode.
C21_Witness ==
    /\ last.op = "set_fmt" /\ last.arg.which = "ACTIVE" /\ last.arg.pad = 0
    /\ last.arg.code = "SRGGB12_1X12"
    /\ last.pre.sensor.mode.bit_depth = AR0822_BIT_DEPTH_ID_12BIT

\* C22 as stated: the handler, given a control its switch has no case for
\* (the horizontal blanking), returns -EINVAL whether or not the device is
\* in use, writes no register, keeps no power reference and changes nothing
\* else.
C22_UnmappedControlRejected ==
    \E w \in {ar0822_set_ctrl(
                  [Now EXCEPT !.ctrls["HBLANK"].val = ctrls["HBLANK"].maximum],
                  "HBLANK")} :
        /\ w.ret = EINVAL
        /\ w.log = <<>>
        /\ w.pm = pm
        /\ w.sensor = sensor
        /\ \A id \in CtrlIds : w.ctrls[id].cur = ctrls[id].cur


\* C23: a probe whose configuration resolved and whose power-on succeeded,
\* but whose chip-version read failed or delivered another value than the
\* model id, returns an error (the read's error, else -ENODEV); no default
\* format is set and no subdevice or control is created, no register is
\* written, and the device is left unbound, powered off, with runtime PM
\* disabled and a usage count of zero.
C23_IdentificationFailureIsFatal ==
    (/\ last.op = "probe"
     /\ last.out.pll_config # NULL
     /\ last.arg.env.power_on = OK
     /\ (last.arg.env.read_ret # OK
         \/ last.arg.env.model_id # AR0822_MODEL_ID))
    => /\ last.ret = (IF last.arg.env.read_ret # OK
                      THEN last.arg.env.read_ret ELSE ENODEV)
       /\ last.ret # OK
       /\ ~Bound
       /\ ctrls = <<>>
       /\ log = <<>>
       /\ pm = [usage_count |-> 0, status |-> "suspended", enabled |-> FALSE]
       /\ last.out.steps = <<"ar0822_parse_hw_config", "ar0822_power_on",
                             "ar0822_identify_model", "ar0822_power_off">>

C23_Witness ==
    /\ last.op = "probe"
    /\ last.out.pll_config # NULL
    /\ last.arg.env.power_on = OK
    /\ last.arg.env.read_ret = OK
    /\ last.arg.env.model_id = 65535
    /\ last.ret = ENODEV
    /\ pm.usage_count = 0


(***************************************************************************)
(* Overlapping callers.  Each caller enters an operation, takes            *)
(* sensor->mutex where the operation does, and runs it; the enable         *)
(* sequence runs stage by stage on the state the device has at that        *)
(* moment, so that anything another caller did in between would show.  The *)
(* transport is reliable here.                                             *)
(***************************************************************************)
MaxConcCalls == 2

AR0822_PIXEL_NATIVE_WIDTH == 3840
AR0822_PIXEL_NATIVE_HEIGHT == 2160
AR0822_PIXEL_ARRAY_WIDTH == 3840
AR0822_PIXEL_ARRAY_HEIGHT == 2160

\* A lock anybody gets at once.
mutex_trylock_always(m) == TRUE

\* mutex_lock goes on only when nobody holds the mutex.
mutex_trylock(m) == m = NULL

\* ar0822_get_selection for the ACTIVE state; locked says whether the
\* target's branch takes sensor->mutex.
ar0822_get_selection(w, target) ==
    IF target = "CROP"
    THEN [ret |-> OK, locked |-> TRUE,
          r |-> [left |-> 0, top |-> 0, width |-> ActiveFormat(w).width,
                 height |-> ActiveFormat(w).height]]
    ELSE IF target = "NATIVE_SIZE"
    THEN [ret |-> OK, locked |-> FALSE,
          r |-> [left |-> 0, top |-> 0, width |-> AR0822_PIXEL_NATIVE_WIDTH,
                 height |-> AR0822_PIXEL_NATIVE_HEIGHT]]
    ELSE IF target \in {"CROP_DEFAULT", "CROP_BOUNDS"}
    THEN [ret |-> OK, locked |-> FALSE,
          r |-> [left |-> 0, top |-> 0, width |-> AR0822_PIXEL_ARRAY_WIDTH,
                 height |-> AR0822_PIXEL_ARRAY_HEIGHT]]
    ELSE [ret |-> EINVAL, locked |-> FALSE,
          r |-> [left |-> 0, top |-> 0, width |-> 0, height |-> 0]]

\* The operations overlapping callers ask for.
ConcOps ==
    {[op |-> "s_stream", arg |-> [enable |-> 1]],
     [op |-> "s_stream", arg |-> [enable |-> 0]],
     [op |-> "set_fmt",
      arg |-> [pad |-> 0, which |-> "ACTIVE", width |-> 3840,
               height |-> 2160, code |-> "SGRBG12_1X12"]],
     [op |-> "get_fmt",
      arg |-> [pad |-> 0, which |-> "ACTIVE", width |-> 0, height |-> 0,
               code |-> "0"]],
     [op |-> "get_selection", arg |-> [target |-> "CROP"]],
     [op |-> "get_selection", arg |-> [target |-> "NATIVE_SIZE"]],
     [op |-> "s_ctrl", arg |-> [id |-> "VBLANK", val |-> 1632]]}

IsEnable(task) == task.op = "s_stream" /\ task.arg.enable = 1

TakesMutex(task) ==
    task.op = "get_selection" => ar0822_get_selection(Now, task.arg.target).locked

\* ar0822_start_streaming in the stages between which the sensor sleeps or
\* another function is entered; timing is the pointer read on entry.
EnableStage(k, w, timing) ==
    IF k = 1 THEN pm_runtime_resume_and_get(w, FALSE)
    ELSE IF k = 2
    THEN IF ar0822_mode_stream_on(w).ret # OK THEN ar0822_mode_stream_on(w)
         ELSE ar0822_mode_stream_off(ar0822_mode_stream_on(w))
    ELSE IF k = 3 THEN ar0822_config_pll(w)
    ELSE IF k = 4 THEN cci_multi_reg_write(w, ar0822_regs_common)
    ELSE IF k = 5 THEN ar0822_reg_seq_write(w, ActiveFormat(w).reg_sequence)
    ELSE IF k = 6
    THEN IF ar0822_config_serial_format(w).ret # OK
         THEN ar0822_config_serial_format(w)
         ELSE cci_write(ar0822_config_serial_format(w), "LINE_LENGTH_PCK",
                        timing.line_length_pck_min)
    ELSE IF k = 7 THEN v4l2_ctrl_handler_setup([w EXCEPT !.ret = OK], 1)
    ELSE StreamingStarted(ar0822_mode_stream_on(w))

LastEnableStage == 8

\* What an operation other than the enable does with the mutex held.
LockedOp(task, ub) ==
    IF task.op = "s_stream" THEN ar0822_set_stream(Now, task.arg.enable, FALSE)
    ELSE IF task.op = "set_fmt"
    THEN ar0822_set_pad_format(Now, try_fmt, task.arg, ub).w
    ELSE IF task.op = "s_ctrl"
    THEN v4l2_s_ctrl(Now, task.arg.id, task.arg.val)
    ELSE IF task.op = "get_fmt"
    THEN [Now EXCEPT !.ret = ar0822_get_pad_format(Now, try_fmt, task.arg).ret]
    ELSE [Now EXCEPT !.ret = ar0822_get_selection(Now, task.arg.target).ret]

Snapshot == [sensor |-> sensor, ctrls |-> ctrls, pm |-> pm]

\* A caller enters an operation.
ConcCall(t) ==
    /\ tasks[t].pc \in {"idle", "done"}
    /\ nops < MaxConcCalls
    /\ \E o \in ConcOps :
        tasks' = [tasks EXCEPT ![t] =
                     [TaskIdle EXCEPT !.pc = "lock", !.op = o.op,
                                      !.arg = o.arg,
                                      !.overlap = (mutex # NULL)]]
    /\ nops' = nops + 1
    /\ UNCHANGED <<sensor, ctrls, pm, try_fmt, log, last, mutex>>

\* mutex_lock(&sensor->mutex)
ConcLock(t) ==
    /\ tasks[t].pc = "lock"
    /\ TakesMutex(tasks[t])
    /\ mutex_trylock(mutex)
    /\ mutex' = t
    /\ tasks' = [tasks EXCEPT ![t].pc = "run", ![t].start = Len(log),
                              ![t].at_lock = Snapshot,
                              ![t].seen = Snapshot]
    /\ UNCHANGED <<sensor, ctrls, pm, try_fmt, log, last, nops>>

\* The branches of ar0822_get_selection that read constants only.
ConcUnlocked(t) ==
    /\ tasks[t].pc = "lock"
    /\ ~TakesMutex(tasks[t])
    /\ tasks' = [tasks EXCEPT ![t].pc = "done",
                     ![t].ret = ar0822_get_selection(Now, tasks[t].arg.target).ret]
    /\ UNCHANGED <<sensor, ctrls, pm, try_fmt, log, last, nops, mutex>>

\* ar0822_set_stream(sd, 1), one stage at a time
ConcEnableStep(t) ==
    /\ tasks[t].pc = "run"
    /\ IsEnable(tasks[t])
    /\ IF tasks[t].stage = 0
       THEN /\ tasks' = IF sensor.streaming
                        THEN [tasks EXCEPT ![t].pc = "unlock", ![t].ret = OK]
                        ELSE [tasks EXCEPT ![t].stage = 1,
                                  ![t].timing = ar0822_get_timing(Now)]
            /\ UNCHANGED <<sensor, ctrls, pm, log>>
       ELSE \E w \in {EnableStage(tasks[t].stage, Now, tasks[t].timing)} :
            /\ sensor' = w.sensor
            /\ ctrls' = w.ctrls
            /\ pm' = w.pm
            /\ log' = log \o w.log
            /\ tasks' = [tasks EXCEPT
                   ![t].own = @ \o w.log,
                   ![t].seen = [sensor |-> w.sensor, ctrls |-> w.ctrls,
                                pm |-> w.pm],
                   ![t].resumed = @ \/ tasks[t].stage = 1,
                   ![t].ret = w.ret,
                   ![t].stage = @ + 1,
                   ![t].pc = IF w.ret # OK \/ tasks[t].stage = LastEnableStage
                             THEN "unlock" ELSE "run"]
    /\ UNCHANGED <<try_fmt, last, nops, mutex>>

\* Any other operation, from its mutex_lock to its mutex_unlock
ConcRun(t) ==
    /\ tasks[t].pc = "run"
    /\ ~IsEnable(tasks[t])
    /\ \E ub \in IF tasks[t].op = "set_fmt" THEN UninitBitDepth ELSE {0} :
       \E w \in {LockedOp(tasks[t], ub)} :
            /\ sensor' = w.sensor
            /\ ctrls' = w.ctrls
            /\ pm' = w.pm
            /\ log' = log \o w.log
            /\ tasks' = [tasks EXCEPT ![t].own = w.log, ![t].ret = w.ret,
                                      ![t].pc = "unlock"]
    /\ UNCHANGED <<try_fmt, last, nops, mutex>>

\* mutex_unlock(&sensor->mutex)
ConcUnlock(t) ==
    /\ tasks[t].pc = "unlock"
    /\ mutex' = NULL
    /\ tasks' = [tasks EXCEPT ![t].pc = "done"]
    /\ UNCHANGED <<sensor, ctrls, pm, try_fmt, log, last, nops>>

\* ar0822_runtime_suspend once no reference is held
ConcRuntimeSuspend ==
    /\ pm.usage_count = 0
    /\ pm.status = "active"
    /\ pm' = [pm EXCEPT !.status = "suspended"]
    /\ UNCHANGED <<sensor, ctrls, try_fmt, log, last, nops, mutex, tasks>>

NextConc ==
    \/ \E t \in Callers : ConcCall(t)
    \/ \E t \in Callers : ConcLock(t)
    \/ \E t \in Callers : ConcUnlocked(t)
    \/ \E t \in Callers : ConcEnableStep(t)
    \/ \E t \in Callers : ConcRun(t)
    \/ \E t \in Callers : ConcUnlock(t)
    \/ ConcRuntimeSuspend

SpecConc == Init /\ [][NextConc]_vars

\* C24: while a caller is inside the enable sequence it owns the mutex and
\* no other caller is inside an operation; the writes logged since it took
\* the mutex are its own and nothing else; the mode, the format code and the
\* controls are what it saw or left at its last stage.  The sequence it ran
\* is the one ar0822_set_stream gives for the state at the lock, with a
\* power resume exactly when the sensor was not streaming.  Two enables
\* issued on a stopped sensor, overlapping or not, end with one resume, one
\* programming pass and one reference held.
C24_MutexSerializesEnable ==
    /\ \A t \in Callers :
        (IsEnable(tasks[t]) /\ tasks[t].pc \in {"run", "unlock"})
        => /\ mutex = t
           /\ \A u \in Callers \ {t} : tasks[u].pc \notin {"run", "unlock"}
           /\ Len(log) = tasks[t].start + Len(tasks[t].own)
           /\ SubSeq(log, tasks[t].start + 1, Len(log)) = tasks[t].own
           /\ sensor.mode = tasks[t].at_lock.sensor.mode
           /\ sensor.fmt_code = tasks[t].at_lock.sensor.fmt_code
           /\ sensor = tasks[t].seen.sensor
           /\ ctrls = tasks[t].seen.ctrls
    /\ \A t \in Callers :
        (IsEnable(tasks[t]) /\ tasks[t].pc \in {"unlock", "done"})
        => /\ tasks[t].resumed = ~tasks[t].at_lock.sensor.streaming
           /\ tasks[t].own =
                  ar0822_set_stream(World(tasks[t].at_lock.sensor,
                                          tasks[t].at_lock.ctrls,
                                          tasks[t].at_lock.pm, {}),
                                    1, FALSE).log
    /\ (nops = 2 /\ \A t \in Callers : IsEnable(tasks[t]) /\ tasks[t].pc = "done")
       => /\ Cardinality({t \in Callers : tasks[t].resumed}) = 1
          /\ Cardinality({t \in Callers : tasks[t].own # <<>>}) = 1
          /\ \E t \in Callers :
                 /\ tasks[t].resumed
                 /\ SubSeq(log, tasks[t].start + 1, Len(log)) = tasks[t].own
          /\ pm.usage_count = 1
          /\ sensor.streaming

C24_Witness ==
    /\ nops = 2
    /\ \A t \in Callers : IsEnable(tasks[t]) /\ tasks[t].pc = "done"
    /\ \E t \in Callers :
        /\ tasks[t].overlap
        /\ ~tasks[t].resumed
        /\ tasks[t].own = <<>>
        /\ \E u \in Callers \ {t} : tasks[u].resumed /\ tasks[u].own # <<>>


\* C25: every attempted write of the frame-length register carries a value
\* between frame_length_lines_min of the active mode and 0xFFFF; the last
\* one carries active height plus the vertical blanking being applied; every
\* write of the line-length register carries line_length_pck_min of the
\* active mode.
C25_FrameLengthWithinLimits ==
    Bound =>
    /\ \A i \in DOMAIN log :
        /\ log[i].reg = "FRAME_LENGTH_LINES"
           => /\ ar0822_get_timing(Now).frame_length_lines_min <= log[i].val
              /\ log[i].val <= AR0822_VTS_MAX
        /\ log[i].reg = "LINE_LENGTH_PCK"
           => log[i].val = ar0822_get_timing(Now).line_length_pck_min
    /\ LastWritten(log, Len(log), "FRAME_LENGTH_LINES") # NULL
       => LastWritten(log, Len(log), "FRAME_LENGTH_LINES")
              = ActiveFormat(Now).height + ctrls["VBLANK"].val


(***************************************************************************)
(* Enumeration of codes and frame sizes, next to the format operations.    *)
(***************************************************************************)
\* ar0822_enum_mbus_code
ar0822_enum_mbus_code(index) ==
    IF index >= AR0822_BIT_DEPTH_ID_AMOUNT THEN [ret |-> EINVAL, code |-> "0"]
    ELSE [ret |-> OK, code |-> ar0822_format_codes(index)]

NoFrameSize(ret) ==
    [ret |-> ret, min_width |-> 0, max_width |-> 0, min_height |-> 0,
     max_height |-> 0]

\* ar0822_enum_frame_size answering for every code.
ar0822_enum_frame_size_any_code(w, fse) ==
    IF fse.pad >= 1 THEN NoFrameSize(EINVAL)
    ELSE IF fse.index >= ar0822_pll_configs(w.sensor.pll_config).formats_amount
    THEN NoFrameSize(EINVAL)
    ELSE [ret |-> OK,
          min_width |-> ar0822_pll_configs(w.sensor.pll_config).formats[fse.index].width,
          max_width |-> ar0822_pll_configs(w.sensor.pll_config).formats[fse.index].width,
          min_height |-> ar0822_pll_configs(w.sensor.pll_config).formats[fse.index].height,
          max_height |-> ar0822_pll_configs(w.sensor.pll_config).formats[fse.index].height]

\* ar0822_enum_frame_size
ar0822_enum_frame_size(w, fse) ==
    IF fse.pad >= 1 THEN NoFrameSize(EINVAL)
    ELSE IF fse.index >= ar0822_pll_configs(w.sensor.pll_config).formats_amount
    THEN NoFrameSize(EINVAL)
    ELSE IF fse.code # ar0822_get_format_code(fse.code)
    THEN NoFrameSize(EINVAL)
    ELSE [ret |-> OK,
          min_width |-> ar0822_pll_configs(w.sensor.pll_config).formats[fse.index].width,
          max_width |-> ar0822_pll_configs(w.sensor.pll_config).formats[fse.index].width,
          min_height |-> ar0822_pll_configs(w.sensor.pll_config).formats[fse.index].height,
          max_height |-> ar0822_pll_configs(w.sensor.pll_config).formats[fse.index].height]

EnumIndexes == 0..3

\* .enum_mbus_code
EnumMbusCode ==
    /\ CanCall
    /\ \E index \in EnumIndexes :
        \E r \in {ar0822_enum_mbus_code(index)} :
            last' = [op |-> "enum_mbus_code", ret |-> r.ret,
                     arg |-> [index |-> index], out |-> r, pre |-> Pre]
    /\ nops' = nops + 1
    /\ log' = <<>>
    /\ UNCHANGED <<sensor, ctrls, pm, try_fmt, mutex, tasks>>

\* .enum_frame_size
EnumFrameSize ==
    /\ CanCall
    /\ \E index \in EnumIndexes, pad \in {0, 1}, code \in ReqCodes :
        \E r \in {ar0822_enum_frame_size(Now, [index |-> index, pad |-> pad,
                                               code |-> code])} :
            last' = [op |-> "enum_frame_size", ret |-> r.ret,
                     arg |-> [index |-> index, pad |-> pad, code |-> code],
                     out |-> r, pre |-> Pre]
    /\ nops' = nops + 1
    /\ log' = <<>>
    /\ UNCHANGED <<sensor, ctrls, pm, try_fmt, mutex, tasks>>

NextEnum ==
    \/ EnumMbusCode
    \/ EnumFrameSize
    \/ SetStream
    \/ SetPadFormat
    \/ Return
    \/ RuntimeSuspend

SpecEnum == Init /\ [][NextEnum]_vars

\* The (code, size) pairs the two enumerations hand out in the state w.
Enumerated(w) ==
    {[code |-> ar0822_enum_mbus_code(c).code,
      width |-> ar0822_enum_frame_size(
                    w, [index |-> s, pad |-> 0,
                        code |-> ar0822_enum_mbus_code(c).code]).min_width,
      height |-> ar0822_enum_frame_size(
                     w, [index |-> s, pad |-> 0,
                         code |-> ar0822_enum_mbus_code(c).code]).min_height,
      format |-> s, bit_depth |-> c] :
        <<c, s>> \in {p \in EnumIndexes \X EnumIndexes :
            /\ ar0822_enum_mbus_code(p[1]).ret = OK
            /\ ar0822_enum_frame_size(
                   w, [index |-> p[2], pad |-> 0,
                       code |-> ar0822_enum_mbus_code(p[1]).code]).ret = OK}}

\* C26: enum_mbus_code answers index 0 with the 10-bit code, index 1 with
\* the 12-bit code and any further index with -EINVAL; enum_frame_size
\* answers, on the image pad and for each of those two codes, index 0 with
\* 1920x1080 and index 1 with 3840x2160 as fixed sizes, and refuses a larger
\* index, another pad and any other code; the pairs enumerated are the four
\* of the mode list, and a set_format(Active) with one of them returns it
\* unchanged and makes it the active mode.
C26_EnumerationMatchesModeList ==
    /\ last.op = "enum_mbus_code"
       => /\ last.ret = (IF last.arg.index < 2 THEN OK ELSE EINVAL)
          /\ last.arg.index = 0 => last.out.code = "SGRBG10_1X10"
          /\ last.arg.index = 1 => last.out.code = "SGRBG12_1X12"
    /\ last.op = "enum_frame_size"
       => /\ last.ret = (IF /\ last.arg.pad = 0
                            /\ last.arg.index < 2
                            /\ last.arg.code \in {"SGRBG10_1X10", "SGRBG12_1X12"}
                         THEN OK ELSE EINVAL)
          /\ last.ret = OK
             => /\ last.out.min_width = last.out.max_width
                /\ last.out.min_height = last.out.max_height
                /\ <<last.out.min_width, last.out.min_height>>
                       = (IF last.arg.index = 0 THEN <<1920, 1080>>
                          ELSE <<3840, 2160>>)
          /\ sensor = last.pre.sensor /\ ctrls = last.pre.ctrls
    /\ {[code |-> e.code, width |-> e.width, height |-> e.height] :
            e \in Enumerated(Now)}
           = [code : {"SGRBG10_1X10", "SGRBG12_1X12"}, width : {1920},
              height : {1080}]
             \cup [code : {"SGRBG10_1X10", "SGRBG12_1X12"}, width : {3840},
                   height : {2160}]
    /\ (/\ last.op = "set_fmt"
        /\ last.arg.which = "ACTIVE"
        /\ last.arg.pad = 0)
       => \A e \in Enumerated(Now) :
            (/\ e.code = last.arg.code
             /\ e.width = last.arg.width
             /\ e.height = last.arg.height)
            => /\ last.ret = OK
               /\ last.out = last.arg
               /\ sensor.mode = [format |-> e.format, bit_depth |-> e.bit_depth]
               /\ sensor.fmt_code = e.code
               /\ ActiveFormat(Now).width = e.width
               /\ ActiveFormat(Now).height = e.height

C26_Witness ==
    /\ last.op = "set_fmt"
    /\ last.arg.which = "ACTIVE"
    /\ last.arg.pad = 0
    /\ last.arg.code = "SGRBG12_1X12"
    /\ last.arg.width = 3840
    /\ last.pre.sensor.mode # sensor.mode
    /\ \E e \in Enumerated(Now) :
        e.code = last.arg.code /\ e.width = last.arg.width


(***************************************************************************)
(* The devicetree overlay and its documented options: what the driver is   *)
(* attached with for each combination.                                     *)
(***************************************************************************)
\* ar0822-overlay.dts: its fragments (by number: active or dormant, and the
\* target), the clock fragment's frequency, and the sensor node with its
\* endpoint.
Overlay ==
    [fragments |->
         [n \in {0, 1, 2, 100, 101, 102} |->
              [active |-> n # 102,
               target |-> CASE n = 0 -> "i2c0if"
                            [] n = 1 -> "cam1_clk"
                            [] n = 2 -> "i2c0mux"
                            [] n = 100 -> "i2c_csi_dsi"
                            [] n = 101 -> "csi1"
                            [] OTHER -> "csi"]],
     clock_frequency |-> 24000000,
     cam_node |-> [clocks |-> "cam1_clk", vana_supply |-> "cam1_reg",
                   data_lanes |-> <<1, 2>>,
                   link_frequencies |-> <<960000000, 480000000>>],
     csi_ep |-> [data_lanes |-> <<1, 2>>],
     loaded |-> TRUE]

\* "+n" / "-n" of an override with target <0>: fragment n is made active or
\* dormant.  For a number no fragment has, the loader either leaves the
\* overlay as it is or refuses it (strict).
ToggleFragment(ov, n, on, strict) ==
    IF n \in DOMAIN ov.fragments THEN [ov EXCEPT !.fragments[n].active = on]
    ELSE IF strict THEN [ov EXCEPT !.loaded = FALSE]
    ELSE ov

\* 4lane = <0>, "-3+4-5+6"
Override_4lane(ov, strict) ==
    ToggleFragment(
        ToggleFragment(
            ToggleFragment(ToggleFragment(ov, 3, FALSE, strict),
                           4, TRUE, strict),
            5, FALSE, strict),
        6, TRUE, strict)

\* cam0: the targets of the i2c, csi and clock fragments, and the node's
\* clock and analogue supply
Override_cam0(ov) ==
    [ov EXCEPT !.fragments[100].target = "i2c_csi_dsi0",
               !.fragments[101].target = "csi0",
               !.fragments[1].target = "cam0_clk",
               !.cam_node.clocks = "cam0_clk",
               !.cam_node.vana_supply = "cam0_reg"]

OverlayOptions == SUBSET {"cam0", "4lane"}

ApplyOptions(options, strict) ==
    IF "4lane" \in options
    THEN Override_4lane(IF "cam0" \in options THEN Override_cam0(Overlay)
                        ELSE Overlay, strict)
    ELSE IF "cam0" \in options THEN Override_cam0(Overlay)
    ELSE Overlay

\* What ar0822_parse_hw_config reads from the node the overlay produced: the
\* rate of the clock the node names, the endpoint's link frequencies and the
\* number of its data lanes.
Attachment(ov) ==
    [extclk_frequency |-> IF ov.fragments[1].active
                             /\ ov.fragments[1].target = ov.cam_node.clocks
                          THEN ov.clock_frequency ELSE 0,
     link_frequencies |-> ov.cam_node.link_frequencies,
     num_data_lanes |-> Len(ov.cam_node.data_lanes)]

\* The overlay loaded with a combination of options, and .probe on the node
\* it produces.
ProbeOverlay ==
    /\ ~Bound
    /\ last = Idle
    /\ \E options \in OverlayOptions, strict \in BOOLEAN :
        \E ov \in {ApplyOptions(options, strict)} :
        IF ~ov.loaded
        THEN /\ last' = [op |-> "dtoverlay", ret |-> EINVAL,
                         arg |-> [options |-> options], out |-> <<>>,
                         pre |-> Pre]
             /\ UNCHANGED <<sensor, ctrls, pm, log, nops>>
        ELSE
        \E hw \in {ar0822_parse_hw_config(Attachment(ov).extclk_frequency,
                                          Attachment(ov).link_frequencies,
                                          Attachment(ov).num_data_lanes)} :
        \E env \in IF hw.ret = OK THEN ProbeEnvs ELSE {ProbeEnvOk} :
        \E r \in {ProbeWith(hw, env, {})} :
            /\ sensor' = r.w.sensor
            /\ ctrls' = r.w.ctrls
            /\ pm' = r.w.pm
            /\ log' = r.w.log
            /\ last' = [op |-> "probe", ret |-> r.ret,
                        arg |-> [options |-> options,
                                 overlay |-> ov,
                                 extclk_frequency |-> Attachment(ov).extclk_frequency,
                                 link_frequencies |-> Attachment(ov).link_frequencies,
                                 num_data_lanes |-> Attachment(ov).num_data_lanes,
                                 env |-> env],
                        out |-> [steps |-> r.steps, checks |-> r.checks,
                                 hw_config |-> r.hw_config,
                                 pll_config |-> r.pll_config],
                        pre |-> Pre]
            /\ nops' = 0
    /\ UNCHANGED <<try_fmt, mutex, tasks>>

NextOverlay ==
    \/ ProbeOverlay
    \/ BoundSetStream
    \/ BoundSetControl
    \/ BoundSetPadFormat
    \/ Return
    \/ BoundRuntimeSuspend

SpecOverlay == InitAttach /\ [][NextOverlay]_vars

\* C27: for every combination of the cam0 and 4lane options the overlay
\* loads and the node it produces carries a 24 MHz clock and 960 MHz as
\* first link frequency, which the resolver accepts as the 24/960 config;
\* the lane count is 4 when 4lane is among the options and 2 otherwise; cam0
\* changes the port, clock and regulator bound and nothing else.
C27_OverlayOptionsResolve ==
    /\ last.op # "dtoverlay"
    /\ last.op = "probe"
       => /\ last.arg.extclk_frequency = 24000000
          /\ Head(last.arg.link_frequencies) = 960000000
          /\ last.out.pll_config = AR0822_EXTCLK_LINK_ID_24_960
          /\ last.out.checks = <<"num_data_lanes", "nr_of_link_frequencies",
                                 "ar0822_pll_configs">>
          /\ last.arg.num_data_lanes
                 = (IF "4lane" \in last.arg.options THEN 4 ELSE 2)
          /\ last.out.hw_config.num_data_lanes = last.arg.num_data_lanes
          /\ last.arg.overlay.cam_node.clocks
                 = (IF "cam0" \in last.arg.options THEN "cam0_clk"
                    ELSE "cam1_clk")
          /\ last.arg.overlay.cam_node.vana_supply
                 = (IF "cam0" \in last.arg.options THEN "cam0_reg"
                    ELSE "cam1_reg")
          /\ last.arg.overlay.fragments[101].target
                 = (IF "cam0" \in last.arg.options THEN "csi0" ELSE "csi1")
          /\ [last.arg.overlay EXCEPT !.fragments = Overlay.fragments,
                  !.cam_node.clocks = "cam1_clk",
                  !.cam_node.vana_supply = "cam1_reg"]
                 = [Overlay EXCEPT
                        !.cam_node.data_lanes = last.arg.overlay.cam_node.data_lanes,
                        !.csi_ep.data_lanes = last.arg.overlay.csi_ep.data_lanes]

\* The part that holds: every combination that loads is accepted as the
\* 24/960 config with two lanes, and cam0 changes the binding only.
C27_OverlayResolvesTwoLanes ==
    last.op = "probe"
    => /\ last.arg.extclk_frequency = 24000000
       /\ Head(last.arg.link_frequencies) = 960000000
       /\ last.out.pll_config = AR0822_EXTCLK_LINK_ID_24_960
       /\ last.arg.num_data_lanes = 2
       /\ last.out.hw_config.num_data_lanes = 2
       /\ [last.arg.overlay EXCEPT !.fragments = Overlay.fragments,
               !.cam_node.clocks = "cam1_clk",
               !.cam_node.vana_supply = "cam1_reg"] = Overlay


\* C28: for a probe with 2 or 4 lanes and a non-empty link-frequency list,
\* only the first entry of the list counts: when it is 480 or 960 MHz (with
\* the 24 MHz clock) the config of that entry is selected whatever follows
\* it; otherwise the probe fails with -EINVAL in ar0822_parse_hw_config and
\* nothing is attached, even when a later entry is in the catalog.
C28_FirstLinkFrequencyOnly ==
    (/\ last.op = "probe"
     /\ last.arg.num_data_lanes \in {2, 4}
     /\ Len(last.arg.link_frequencies) > 0)
    => IF /\ last.arg.extclk_frequency = 24000000
          /\ last.arg.link_frequencies[1] \in {480000000, 960000000}
       THEN /\ last.out.pll_config
                   = (IF last.arg.link_frequencies[1] = 480000000
                      THEN AR0822_EXTCLK_LINK_ID_24_480
                      ELSE AR0822_EXTCLK_LINK_ID_24_960)
            /\ Len(last.out.steps) > 1
            /\ last.ret = OK => sensor.pll_config = last.out.pll_config
       ELSE /\ last.ret = EINVAL
            /\ last.out.pll_config = NULL
            /\ last.out.steps = <<"ar0822_parse_hw_config">>
            /\ ~Bound
            /\ log = <<>>

C28_Witness ==
    /\ last.op = "probe"
    /\ last.arg.num_data_lanes = 2
    /\ last.arg.extclk_frequency = 24000000
    /\ last.arg.link_frequencies = <<720000000, 480000000>>
    /\ last.ret = EINVAL
    /\ ~Bound


\* C29: when a register write fails during set_control(VBLANK, v) on a
\* device in use (the frame-length write, or the exposure write of the
\* clamp it causes), the call returns the transport error, the vertical
\* blanking keeps the value it had before the call, the exposure maximum
\* is active height + that value - AR0822_EXPOSURE_MIN and the exposure
\* value does not exceed it.
C29_FailedVblankWriteKeepsState ==
    (/\ last.op = "s_ctrl"
     /\ last.arg.id = "VBLANK"
     /\ \E i \in DOMAIN log : ~log[i].ok)
    => /\ last.ret = EIO
       /\ ctrls["VBLANK"].cur = last.pre.ctrls["VBLANK"].cur
       /\ ctrls["EXPOSURE"].maximum
              = ActiveFormat(Now).height + ctrls["VBLANK"].cur
                - AR0822_EXPOSURE_MIN
       /\ ctrls["EXPOSURE"].cur <= ctrls["EXPOSURE"].maximum

\* What does hold when the frame-length write itself fails: the error is
\* returned and the vertical blanking keeps its value, while the exposure
\* range already follows the value that was asked for.
C29_FailedVblankWriteReturnsError ==
    (/\ last.op = "s_ctrl"
     /\ last.arg.id = "VBLANK"
     /\ \E i \in DOMAIN log : log[i].reg = "FRAME_LENGTH_LINES" /\ ~log[i].ok)
    => /\ last.ret = EIO
       /\ ctrls["VBLANK"].cur = last.pre.ctrls["VBLANK"].cur
       /\ ctrls["EXPOSURE"].maximum
              = ActiveFormat(Now).height + ctrls["VBLANK"].val
                - AR0822_EXPOSURE_MIN
       /\ ctrls["EXPOSURE"].val <= ctrls["EXPOSURE"].maximum


\* C30: after a successful probe, between operations, the usage count is 1
\* while the sensor is streaming and 0 otherwise, whatever set_stream,
\* set_control and set_format calls came before and whichever of their
\* resumes and writes failed; it is never negative.
C30_UsageCountFollowsStreaming ==
    /\ pm.usage_count >= 0
    /\ pm.usage_count = (IF sensor.streaming THEN 1 ELSE 0)

\* The handler's own reference: ar0822_set_ctrl leaves the usage count as it
\* found it, for every control and whether its write fails or not.
C30_SetCtrlBalanced ==
    /\ pm.usage_count >= 0
    /\ last.op = "s_ctrl" => pm = last.pre.pm
    /\ \A id \in CtrlIds :
        /\ ar0822_set_ctrl(Now, id).pm = pm
        /\ ar0822_set_ctrl([Now EXCEPT !.fails = {1, 2}], id).pm = pm


\* C31: every register write attempted by probe, the enable sequence, the
\* disable sequence and ar0822_set_ctrl is made on a device that is active
\* with a reference held; a control set on a device that is not in use
\* writes nothing.
C31_NoAccessWhilePoweredOff ==
    /\ \A i \in DOMAIN log : log[i].powered
    /\ (/\ last.op = "s_ctrl"
        /\ ~(last.pre.pm.status = "active" /\ last.pre.pm.usage_count > 0))
       => log = <<>>
    /\ pm.status = "suspended" => (pm.usage_count = 0 /\ ~sensor.streaming)

C31_Witness ==
    /\ last.op = "s_stream"
    /\ last.arg = 1
    /\ last.ret = OK
    /\ last.pre.pm.status = "suspended"
    /\ log # <<>>
    /\ \A i \in DOMAIN log : log[i].powered


(***************************************************************************)
(* The same operations with a fair autosuspend timer and callers that take *)
(* their results.                                                          *)
(***************************************************************************)
SpecLive ==
    Init /\ [][Next]_vars /\ WF_vars(RuntimeSuspend) /\ WF_vars(Return)

\* No further operation will be asked for.
Quiescent == ~sensor.streaming /\ nops = MaxOps

\* C32: once the sensor is stopped and no further operation is requested,
\* the device is eventually runtime-suspended: after probe, after a disable
\* and after an enable that failed.
C32_StoppedEventuallySuspends ==
    Quiescent ~> (pm.status = "suspended")

\* With no reference left behind the stopped device is suspended.
C32_UnreferencedEventuallySuspends ==
    (Quiescent /\ pm.usage_count = 0) ~> (pm.status = "suspended")

(***************************************************************************)
(* The driver revision kept after the overlay in ar0822-overlay.dts: the   *)
(* media-bus code follows the flips.  Its catalogs hold the 3840x2160      *)
(* entry only, which is entry 1 of the formats above; its control handler, *)
(* ar0822_set_stream and ar0822_set_framing_limits read as the ones above. *)
(***************************************************************************)
MaxFlipOps == 3

\* mutex_lock by a caller that finds the mutex free, and mutex_unlock
mutex_lock(m, caller) == caller

mutex_unlock(m) == NULL

\* lockdep_assert_held: whether the calling context holds the mutex.
lockdep_assert_held(m, caller) == m = caller

\* ar0822_fmt_code_to_bit_depth: the table a code belongs to, or
\* AR0822_BIT_DEPTH_AMOUNT for a code of neither table.
ar0822_fmt_code_to_bit_depth(code) ==
    IF \E i \in 1..4 : ar0822_format_codes_10bit[i] = code
    THEN AR0822_BIT_DEPTH_ID_10BIT
    ELSE IF \E i \in 1..4 : ar0822_format_codes_12bit[i] = code
    THEN AR0822_BIT_DEPTH_ID_12BIT
    ELSE AR0822_BIT_DEPTH_ID_AMOUNT

\* ar0822_get_format_code of the revision: the entry of the bit depth's
\* table at (vflip->val ? 2 : 0) | (hflip->val ? 1 : 0); any other bit depth
\* reads the 10-bit table.  assert is the result of the lock assertion made
\* on entry, for the mutex state m and the calling context.
ar0822_get_format_code_flipped(w, bit_depth, m, caller) ==
    LET i == (IF w.ctrls["VFLIP"].val # 0 THEN 2 ELSE 0)
             + (IF w.ctrls["HFLIP"].val # 0 THEN 1 ELSE 0)
    IN  [code |-> IF bit_depth = AR0822_BIT_DEPTH_ID_12BIT
                  THEN ar0822_format_codes_12bit[i + 1]
                  ELSE ar0822_format_codes_10bit[i + 1],
         assert |-> lockdep_assert_held(m, caller)]

\* The supported_modes of the revision's configuration.
SupportedModes(w) ==
    IF w.sensor.pll_config = AR0822_EXTCLK_LINK_ID_24_480
    THEN ar0822_modes_24_480 ELSE ar0822_modes_24_960

\* ar0822_enum_mbus_code of the revision: no lock is taken.
ar0822_enum_mbus_code_flipped(w, index, m, caller) ==
    IF index >= AR0822_BIT_DEPTH_ID_AMOUNT
    THEN [ret |-> EINVAL, code |-> "0", asserts |-> <<>>, mutex |-> m]
    ELSE LET c == ar0822_get_format_code_flipped(w, index, m, caller)
         IN  [ret |-> OK, code |-> c.code, asserts |-> <<c.assert>>,
              mutex |-> m]

\* ar0822_enum_frame_size of the revision: no lock is taken.
ar0822_enum_frame_size_flipped(w, fse, m, caller) ==
    IF fse.pad >= 1 \/ fse.index \notin DOMAIN SupportedModes(w)
    THEN [ret |-> EINVAL, min_width |-> 0, min_height |-> 0,
          asserts |-> <<>>, mutex |-> m]
    ELSE LET c == ar0822_get_format_code_flipped(
                      w, ar0822_fmt_code_to_bit_depth(fse.code), m, caller)
         IN  IF fse.code # c.code
             THEN [ret |-> EINVAL, min_width |-> 0, min_height |-> 0,
                   asserts |-> <<c.assert>>, mutex |-> m]
             ELSE [ret |-> OK,
                   min_width |-> SupportedModes(w)[fse.index].width,
                   min_height |-> SupportedModes(w)[fse.index].height,
                   asserts |-> <<c.assert>>, mutex |-> m]

\* ar0822_get_pad_format of the revision, under the mutex from line 1230 to
\* the mutex_release label.
ar0822_get_pad_format_flipped(w, tf, fmt, m, caller) ==
    IF fmt.pad >= 1
    THEN [ret |-> EINVAL, try_fmt |-> tf, fmt |-> fmt, asserts |-> <<>>,
          mutex |-> m]
    ELSE LET m1 == mutex_lock(m, caller)
         IN  IF fmt.pad # 0
             THEN [ret |-> EINVAL, try_fmt |-> tf, fmt |-> fmt,
                   asserts |-> <<>>, mutex |-> mutex_unlock(m1)]
             ELSE IF fmt.which = "TRY"
             THEN LET c == ar0822_get_format_code_flipped(
                               w, ar0822_fmt_code_to_bit_depth(tf.code),
                               m1, caller)
                      t == [tf EXCEPT !.code = c.code]
                  IN  [ret |-> OK, try_fmt |-> t,
                       fmt |-> [fmt EXCEPT !.width = t.width,
                                           !.height = t.height,
                                           !.code = t.code],
                       asserts |-> <<c.assert>>, mutex |-> mutex_unlock(m1)]
             ELSE LET c == ar0822_get_format_code_flipped(
                               w, w.sensor.mode.bit_depth, m1, caller)
                  IN  [ret |-> OK, try_fmt |-> tf,
                       fmt |-> [fmt EXCEPT !.width = ActiveFormat(w).width,
                                           !.height = ActiveFormat(w).height,
                                           !.code = c.code],
                       asserts |-> <<c.assert>>, mutex |-> mutex_unlock(m1)]

\* ar0822_set_pad_format of the revision: a code of neither table is refused
\* before the lock; the rest runs under the mutex.
ar0822_set_pad_format_flipped(w, tf, fmt, m, caller) ==
    LET bit_depth == ar0822_fmt_code_to_bit_depth(fmt.code)
    IN  IF fmt.pad >= 1 \/ bit_depth = AR0822_BIT_DEPTH_ID_AMOUNT
        THEN [w |-> [w EXCEPT !.ret = EINVAL], try_fmt |-> tf, fmt |-> fmt,
              asserts |-> <<>>, mutex |-> m]
        ELSE
        LET m1   == mutex_lock(m, caller)
            c    == ar0822_get_format_code_flipped(w, bit_depth, m1, caller)
            mode == v4l2_find_nearest_size(SupportedModes(w), fmt.width,
                                           fmt.height)
            out  == [fmt EXCEPT !.width = SupportedModes(w)[mode].width,
                                !.height = SupportedModes(w)[mode].height,
                                !.code = c.code]
        IN  IF fmt.which = "TRY"
            THEN [w |-> [w EXCEPT !.ret = OK],
                  try_fmt |-> [width |-> out.width, height |-> out.height,
                               code |-> out.code],
                  fmt |-> out, asserts |-> <<c.assert>>,
                  mutex |-> mutex_unlock(m1)]
            ELSE IF \/ w.sensor.mode.bit_depth # bit_depth
                    \/ w.sensor.fmt_code # c.code
            THEN [w |-> [ar0822_set_framing_limits(
                             [w EXCEPT !.sensor.mode.bit_depth = bit_depth,
                                       !.sensor.fmt_code = c.code])
                         EXCEPT !.ret = OK],
                  try_fmt |-> tf, fmt |-> out, asserts |-> <<c.assert>>,
                  mutex |-> mutex_unlock(m1)]
            ELSE [w |-> [w EXCEPT !.ret = OK], try_fmt |-> tf, fmt |-> out,
                  asserts |-> <<c.assert>>, mutex |-> mutex_unlock(m1)]

\* Codes an application asks for: of either table, and of neither.
FlipReqCodes == {"SGRBG10_1X10", "SRGGB10_1X10", "SBGGR12_1X12", "Y8_1X8"}

\* The state after the revision's probe: the one mode of its catalog,
\* 10 bits, the first code of the 10-bit table, and the framing limits of
\* that mode.
InitFlip ==
    \E pll_config \in {AR0822_EXTCLK_LINK_ID_24_480, AR0822_EXTCLK_LINK_ID_24_960},
       num_data_lanes \in {2, 4} :
        \E w \in {ar0822_set_framing_limits(
                      [ar0822_probe(pll_config, num_data_lanes) EXCEPT
                           !.sensor.mode.format = 1,
                           !.sensor.mode.bit_depth = AR0822_BIT_DEPTH_ID_10BIT,
                           !.sensor.fmt_code = ar0822_format_codes_10bit[1]])} :
            /\ sensor = w.sensor
            /\ ctrls = w.ctrls
            /\ pm = w.pm
            /\ try_fmt = [width |-> 0, height |-> 0, code |-> "0"]
            /\ log = w.log
            /\ last = [op |-> "probe", ret |-> OK, arg |-> <<>>, out |-> <<>>,
                       pre |-> <<>>]
            /\ nops = 0
            /\ mutex = NULL
            /\ tasks = NoTasks

CanCallFlip == last = Idle /\ nops < MaxFlipOps /\ mutex = NULL

\* .enum_mbus_code of the revision
FlipEnumMbusCode ==
    /\ CanCallFlip
    /\ \E index \in 0..2, caller \in Callers :
        \E r \in {ar0822_enum_mbus_code_flipped(Now, index, mutex, caller)} :
            /\ last' = [op |-> "enum_mbus_code", ret |-> r.ret,
                        arg |-> [index |-> index], out |-> r, pre |-> Pre]
            /\ mutex' = r.mutex
    /\ nops' = nops + 1
    /\ log' = <<>>
    /\ UNCHANGED <<sensor, ctrls, pm, try_fmt, tasks>>

\* .enum_frame_size of the revision
FlipEnumFrameSize ==
    /\ CanCallFlip
    /\ \E index \in 0..1, pad \in {0, 1}, code \in FlipReqCodes,
          caller \in Callers :
        \E r \in {ar0822_enum_frame_size_flipped(
                      Now, [index |-> index, pad |-> pad, code |-> code],
                      mutex, caller)} :
            /\ last' = [op |-> "enum_frame_size", ret |-> r.ret,
                        arg |-> [index |-> index, pad |-> pad, code |-> code],
                        out |-> r, pre |-> Pre]
            /\ mutex' = r.mutex
    /\ nops' = nops + 1
    /\ log' = <<>>
    /\ UNCHANGED <<sensor, ctrls, pm, try_fmt, tasks>>

\* .get_fmt of the revision
FlipGetPadFormat ==
    /\ CanCallFlip
    /\ \E which \in {"TRY", "ACTIVE"}, pad \in {0, 1}, caller \in Callers :
        \E r \in {ar0822_get_pad_format_flipped(
                      Now, try_fmt,
                      [pad |-> pad, which |-> which, width |-> 0,
                       height |-> 0, code |-> "0"], mutex, caller)} :
            /\ last' = [op |-> "get_fmt", ret |-> r.ret,
                        arg |-> [pad |-> pad, which |-> which],
                        out |-> r, pre |-> Pre]
            /\ try_fmt' = r.try_fmt
            /\ mutex' = r.mutex
    /\ nops' = nops + 1
    /\ log' = <<>>
    /\ UNCHANGED <<sensor, ctrls, pm, tasks>>

\* .set_fmt of the revision
FlipSetPadFormat ==
    /\ CanCallFlip
    /\ \E size \in ReqSizes, code \in FlipReqCodes, which \in {"TRY", "ACTIVE"},
          pad \in {0, 1}, caller \in Callers :
        \E r \in {ar0822_set_pad_format_flipped(
                      Now, try_fmt,
                      [pad |-> pad, which |-> which, width |-> size[1],
                       height |-> size[2], code |-> code], mutex, caller)} :
            /\ sensor' = r.w.sensor
            /\ ctrls' = r.w.ctrls
            /\ pm' = r.w.pm
            /\ log' = r.w.log
            /\ last' = [op |-> "set_fmt", ret |-> r.w.ret,
                        arg |-> [pad |-> pad, which |-> which,
                                 width |-> size[1], height |-> size[2],
                                 code |-> code],
                        out |-> [fmt |-> r.fmt, asserts |-> r.asserts],
                        pre |-> Pre]
            /\ try_fmt' = r.try_fmt
            /\ mutex' = r.mutex
    /\ nops' = nops + 1
    /\ UNCHANGED tasks

\* VIDIOC_S_CTRL on a flip, and .s_stream, on a reliable transport
FlipSetControl == CanCallFlip /\ DoSetControl(FALSE, {"HFLIP", "VFLIP"})

FlipSetStream == CanCallFlip /\ DoSetStream(FALSE)

NextFlip ==
    \/ FlipEnumMbusCode
    \/ FlipEnumFrameSize
    \/ FlipGetPadFormat
    \/ FlipSetPadFormat
    \/ FlipSetControl
    \/ FlipSetStream
    \/ Return

SpecFlip == InitFlip /\ [][NextFlip]_vars

\* C33: in the revision every call of ar0822_get_format_code, from
\* enum_mbus_code, enum_frame_size, get_pad_format and set_pad_format, is
\* made by a context that holds the device mutex (the lock assertion on its
\* entry holds), and the mutex is free again when the operation returns.
C33_FormatCodeReadUnderMutex ==
    last.op \in {"enum_mbus_code", "enum_frame_size", "get_fmt", "set_fmt"} =>
        /\ \A i \in DOMAIN last.out.asserts : last.out.asserts[i]
        /\ mutex = NULL

\* What holds of the revision: the two format operations read the flips
\* under the mutex, every operation returns with the mutex free, and each
\* enumeration that gets past its argument checks reads the flips without
\* it.
C33_PadFormatReadsUnderMutex ==
    /\ last.op \in {"get_fmt", "set_fmt"} =>
           \A i \in DOMAIN last.out.asserts : last.out.asserts[i]
    /\ last.op \in {"enum_mbus_code", "enum_frame_size"} =>
           \A i \in DOMAIN last.out.asserts : ~last.out.asserts[i]
    /\ mutex = NULL

\* Entry (vflip ? 2 : 0) | (hflip ? 1 : 0) of the Bayer table of a bit depth
\* (GRBG, RGGB, BGGR, GBRG), for flip values given as 0 or 1.
BayerEntry(bit_depth, vflip, hflip) ==
    IF bit_depth = AR0822_BIT_DEPTH_ID_12BIT
    THEN ar0822_format_codes_12bit[2 * vflip + hflip + 1]
    ELSE ar0822_format_codes_10bit[2 * vflip + hflip + 1]

\* The bit depth an operation of the revision reports a code for, and the
\* code it reported.
ReportedDepth ==
    CASE last.op = "enum_mbus_code" -> last.arg.index
      [] last.op = "set_fmt" -> ar0822_fmt_code_to_bit_depth(last.arg.code)
      [] last.op = "get_fmt" /\ last.arg.which = "TRY" ->
             ar0822_fmt_code_to_bit_depth(last.pre.try_fmt.code)
      [] OTHER -> sensor.mode.bit_depth

ReportedCode ==
    CASE last.op = "enum_mbus_code" -> last.out.code
      [] OTHER -> last.out.fmt.code

Reports ==
    /\ last.op \in {"enum_mbus_code", "get_fmt", "set_fmt"}
    /\ last.ret = OK

\* C37: in the revision the code enum_mbus_code, get_format and set_format
\* report is the entry of the bit depth's Bayer table at
\* (vflip ? 2 : 0) | (hflip ? 1 : 0) for the flip values in force at the
\* call; get_format(Active) reports that entry for the active mode's bit
\* depth whatever was set before, so a flip changed while stopped shows in
\* the next get_format without a set_format.
C37_CodeFollowsCurrentFlips ==
    Reports =>
        /\ ReportedCode = BayerEntry(ReportedDepth, ctrls["VFLIP"].cur,
                                     ctrls["HFLIP"].cur)
        /\ (last.op = "get_fmt" /\ last.arg.which = "ACTIVE") =>
               ar0822_fmt_code_to_bit_depth(ReportedCode)
                   = sensor.mode.bit_depth

\* What holds of the revision: the reported code is the entry for the values
\* last handed to the flip controls, accepted or not, and it is the entry
\* for the flips in force whenever no flip set has been refused since; the
\* code of get_format(Active) has the active mode's bit depth.
C37_CodeFollowsRequestedFlips ==
    Reports =>
        /\ ReportedCode = BayerEntry(ReportedDepth, ctrls["VFLIP"].val,
                                     ctrls["HFLIP"].val)
        /\ (/\ ctrls["VFLIP"].val = ctrls["VFLIP"].cur
            /\ ctrls["HFLIP"].val = ctrls["HFLIP"].cur) =>
               ReportedCode = BayerEntry(ReportedDepth, ctrls["VFLIP"].cur,
                                         ctrls["HFLIP"].cur)
        /\ (last.op = "get_fmt" /\ last.arg.which = "ACTIVE") =>
               ar0822_fmt_code_to_bit_depth(ReportedCode)
                   = sensor.mode.bit_depth

(***************************************************************************)
(* The calls that take, release or rely on sensor->mutex, in the order an  *)
(* operation of src/ar0822.c makes them on the path it takes.              *)
(***************************************************************************)
MutexCall(call, line) == [call |-> call, line |-> line]

\* ar0822_set_framing_limits: lock-held variants only
FramingLimitsCalls ==
    << MutexCall("__v4l2_ctrl_modify_range", 645),
       MutexCall("__v4l2_ctrl_s_ctrl", 651),
       MutexCall("__v4l2_ctrl_modify_range", 655),
       MutexCall("__v4l2_ctrl_s_ctrl", 656) >>

\* An error exit of ar0822_set_stream that returns at once.
err_start_streaming_returns == << >>

\* The err_start_streaming label of ar0822_set_stream
err_start_streaming == << MutexCall("mutex_unlock", 1013) >>

\* The calls of one operation, entered in the state pre and returning ret;
\* nested says whether the branch that updates the controls from inside the
\* operation is taken (the mode change of ar0822_set_pad_format, the
\* exposure range of a vertical-blanking set, the control setup of the
\* enable sequence).
MutexCalls(op, arg, pre, ret, nested) ==
    CASE op = "s_stream" ->
           << MutexCall("mutex_lock", 984) >>
           \o (IF pre.sensor.streaming = (arg # 0)
               THEN << MutexCall("mutex_unlock", 986) >>
               ELSE IF arg # 0 /\ ret # OK
               THEN (IF nested
                     THEN << MutexCall("__v4l2_ctrl_handler_setup", 955) >>
                     ELSE << >>)
                    \o err_start_streaming
               ELSE (IF arg # 0
                     THEN << MutexCall("__v4l2_ctrl_handler_setup", 955) >>
                     ELSE << >>)
                    \o << MutexCall("__v4l2_ctrl_grab", 1005),
                          MutexCall("__v4l2_ctrl_grab", 1006),
                          MutexCall("mutex_unlock", 1008) >>)
      [] op = "get_fmt" ->
           IF arg.pad >= 1 THEN << >>
           ELSE << MutexCall("mutex_lock", 1135),
                   MutexCall("mutex_unlock", 1161) >>
      [] op = "set_fmt" ->
           IF arg.pad >= 1 THEN << >>
           ELSE << MutexCall("mutex_lock", 1177) >>
                \o (IF arg.which = "ACTIVE" /\ nested
                    THEN FramingLimitsCalls ELSE << >>)
                \o << MutexCall("mutex_unlock", 1200) >>
      [] op = "get_selection" ->
           IF arg.target = "CROP"
           THEN << MutexCall("mutex_lock", 1227),
                   MutexCall("mutex_unlock", 1230) >>
           ELSE << >>
      [] op = "s_ctrl" ->
           IF pre.ctrls[arg.id].read_only THEN << >>
           ELSE << MutexCall("v4l2_ctrl_lock", 675) >>
                \o (IF arg.id = "VBLANK" /\ nested
                    THEN << MutexCall("__v4l2_ctrl_modify_range", 538) >>
                    ELSE << >>)
                \o << MutexCall("v4l2_ctrl_unlock", 675) >>
      [] OTHER -> << >>

\* The mutex after a caller made the calls one after the other, and what
\* went wrong on the way: a lock taken while it is held never returns, an
\* unlock needs the caller to hold it, a lock-held variant asserts that.
RECURSIVE HoldAfter(_, _, _)
HoldAfter(calls, m, caller) ==
    IF calls = << >> THEN [mutex |-> m, error |-> "none"]
    ELSE LET c == Head(calls)
         IN  IF c.call \in {"mutex_lock", "v4l2_ctrl_lock"}
             THEN IF mutex_trylock(m)
                  THEN HoldAfter(Tail(calls), mutex_lock(m, caller), caller)
                  ELSE [mutex |-> m, error |-> "deadlock"]
             ELSE IF c.call \in {"mutex_unlock", "v4l2_ctrl_unlock"}
             THEN IF lockdep_assert_held(m, caller)
                  THEN HoldAfter(Tail(calls), mutex_unlock(m), caller)
                  ELSE [mutex |-> m, error |-> "unlock of a free mutex"]
             ELSE IF lockdep_assert_held(m, caller)
             THEN HoldAfter(Tail(calls), m, caller)
             ELSE [mutex |-> m, error |-> "lock not held"]

SelectionTargets == {"CROP", "NATIVE_SIZE", "CROP_DEFAULT", "CROP_BOUNDS", "COMPOSE"}

\* C34: every operation of src/ar0822.c (set_stream, get_pad_format,
\* set_pad_format, get_selection, a control set through the handler), on
\* the path it took from the state it was entered in to the result it
\* returned (errors and no-ops included), takes the mutex only when it does
\* not hold it, makes its nested control updates through the lock-held
\* variants while holding it, and returns with the mutex free.
C34_MutexReleasedOnEveryPath ==
    /\ last.op \in {"s_stream", "get_fmt", "set_fmt", "s_ctrl"} =>
           \A nested \in BOOLEAN, caller \in Callers :
               HoldAfter(MutexCalls(last.op, last.arg, last.pre, last.ret,
                                    nested), mutex, caller)
                   = [mutex |-> NULL, error |-> "none"]
    /\ \A target \in SelectionTargets, caller \in Callers :
           HoldAfter(MutexCalls("get_selection", [target |-> target], Pre,
                                ar0822_get_selection(Now, target).ret, FALSE),
                     mutex, caller)
               = [mutex |-> NULL, error |-> "none"]
    /\ mutex = NULL

\* An enable that failed after taking the mutex has returned through
\* err_start_streaming.
C34_Witness ==
    /\ last.op = "s_stream" /\ last.arg = 1 /\ last.ret # OK
    /\ ~last.pre.sensor.streaming
    /\ \E i \in DOMAIN MutexCalls(last.op, last.arg, last.pre, last.ret, TRUE) :
           MutexCalls(last.op, last.arg, last.pre, last.ret, TRUE)[i]
               = MutexCall("mutex_unlock", 1013)

\* With overlapping callers the mutex is held exactly by a caller that is
\* between the mutex_lock and the mutex_unlock of its operation.
C34_HolderIsInsideItsOperation ==
    \A t \in Callers : (mutex = t) <=> (tasks[t].pc \in {"run", "unlock"})

\* The bits per sample a media-bus code stands for (MEDIA_BUS_FMT_S*10_1X10,
\* MEDIA_BUS_FMT_S*12_1X12), 0 for any other code.
CodeBits(code) ==
    IF \E i \in 1..4 : ar0822_format_codes_10bit[i] = code THEN 10
    ELSE IF \E i \in 1..4 : ar0822_format_codes_12bit[i] = code THEN 12
    ELSE 0

\* The bits per sample of the code get_format(Active) reports in the
\* state s.
ActiveBits(s) ==
    CodeBits(ar0822_get_pad_format(
                 World(s, ctrls, pm, {}), try_fmt,
                 [pad |-> 0, which |-> "ACTIVE", width |-> 0, height |-> 0,
                  code |-> "0"]).fmt.code)

\* C35: after every successful stream enable of src/ar0822.c the stored
\* format code is the code of the active mode's bit depth; the MIPI timing
\* sequence written is the one of that bit depth; the data-format register
\* holds the bit depth in both bytes; the op-word clock divider is the bit
\* depth / 2; the lane field of the serial-format register is the resolved
\* lane count; and the mode register sequence written is the one of the
\* catalog entry whose size get_format(Active) reports, with the stored
\* code.  Every write of these sequences, up to the line length that follows
\* them, succeeded.
C35_ProgrammedFormatIsNegotiated ==
    (EnableRan /\ last.ret = OK) =>
        \E cfg \in {ar0822_pll_configs(sensor.pll_config)} :
        \E g \in {ar0822_get_pad_format(
                      Now, try_fmt,
                      [pad |-> 0, which |-> "ACTIVE", width |-> 0,
                       height |-> 0, code |-> "0"]).fmt} :
            /\ ActiveBits(sensor) \in {10, 12}
            /\ sensor.fmt_code = ar0822_format_codes(sensor.mode.bit_depth)
            /\ ar0822_get_bit_depth(sensor.mode.bit_depth)
                   = [ret |-> OK, bit_depth |-> ActiveBits(sensor)]
            /\ g.code = sensor.fmt_code
            /\ \E p \in 1..Len(log) :
                   BlockAt(Writes(log), cfg.regs_mipi[sensor.mode.bit_depth], p)
            /\ \A b \in (0..1) \ {sensor.mode.bit_depth} :
                   \A p \in 1..Len(log) :
                       ~BlockAt(Writes(log), cfg.regs_mipi[b], p)
            /\ LastWritten(log, Len(log), "DATA_FORMAT_BITS")
                   = 256 * ActiveBits(sensor) + ActiveBits(sensor)
            /\ LastWritten(log, Len(log), "OP_WORD_CLK_DIV")
                   = ActiveBits(sensor) \div 2
            /\ LastWritten(log, Len(log), "SERIAL_FORMAT") % 256
                   = sensor.hw_config.num_data_lanes
            /\ sensor.hw_config.num_data_lanes \in {2, 4}
            /\ \A i \in DOMAIN cfg.formats :
                   (cfg.formats[i].width = g.width
                    /\ cfg.formats[i].height = g.height) =>
                       /\ i = sensor.mode.format
                       /\ \E p \in 1..Len(log) :
                              BlockAt(Writes(log), cfg.formats[i].reg_sequence, p)
            /\ \E i \in DOMAIN cfg.formats :
                   cfg.formats[i].width = g.width /\ cfg.formats[i].height = g.height
            /\ \E p \in 1..Len(log) :
                   /\ log[p].reg = "LINE_LENGTH_PCK"
                   /\ \A i \in 1..p : log[i].ok

\* A successful enable of the 12-bit 3840x2160 mode negotiated before it.
C35_Witness ==
    /\ EnableRan /\ last.ret = OK
    /\ sensor.mode.bit_depth = AR0822_BIT_DEPTH_ID_12BIT
    /\ sensor.mode.format = 1
    /\ LastWritten(log, Len(log), "DATA_FORMAT_BITS") = 3084

\* C36: for the configuration, format, lane mode and bit depth in force the
\* blanking values derived from the timing table are well formed:
\* line_length_pck_min >= width, so that the horizontal blanking
\* line_length_pck_min - width and the range of its control are not
\* negative; frame_length_lines_min > height and <= VTS_MAX, so that the
\* vertical blanking range is not empty.
C36_BlankingWellFormed ==
    \E timing \in {ar0822_get_timing(Now)}, format \in {ActiveFormat(Now)} :
        /\ timing.line_length_pck_min >= format.width
        /\ ctrls["HBLANK"].minimum >= 0
        /\ timing.frame_length_lines_min > format.height
        /\ timing.frame_length_lines_min <= AR0822_VTS_MAX
        /\ ctrls["VBLANK"].minimum <= ctrls["VBLANK"].maximum

\* What holds: the vertical part, for every entry of both catalogs and for
\* the limits in force; and the horizontal blanking range in force is the
\* single value line_length_pck_min - width, whatever its sign.
C36_VerticalBlankingWellFormed ==
    /\ \A c \in {AR0822_EXTCLK_LINK_ID_24_480, AR0822_EXTCLK_LINK_ID_24_960} :
       \A i \in DOMAIN ar0822_pll_configs(c).formats :
       \A k \in DOMAIN ar0822_pll_configs(c).formats[i].timing :
           \E f \in {ar0822_pll_configs(c).formats[i]} :
               /\ f.timing[k].frame_length_lines_min > f.height
               /\ f.timing[k].frame_length_lines_min <= AR0822_VTS_MAX
    /\ \E timing \in {ar0822_get_timing(Now)}, format \in {ActiveFormat(Now)} :
        /\ ctrls["VBLANK"].minimum = timing.frame_length_lines_min - format.height
        /\ ctrls["VBLANK"].minimum > 0
        /\ ctrls["VBLANK"].maximum = AR0822_VTS_MAX - format.height
        /\ ctrls["VBLANK"].minimum <= ctrls["VBLANK"].maximum
        /\ ctrls["HBLANK"].minimum = timing.line_length_pck_min - format.width
        /\ ctrls["HBLANK"].maximum = ctrls["HBLANK"].minimum

(***************************************************************************)
(* The revision in unnamed/part_000: ar0822_s_stream and ar0822_s_ctrl and *)
(* the runtime-PM references they take.  The file defines none of the      *)
(* register constants it names, so a write is logged under its register's  *)
(* name with the control value it is made for, and each register table as  *)
(* one transfer.  sensor holds the one thing the subdevice core keeps for  *)
(* the driver here: whether the last .s_stream call enabled the stream.    *)
(***************************************************************************)
MaxPartOps == 3

\* The controls of ar0822_ctrls_init that reach ar0822_s_ctrl, in creation
\* order (link frequency and the fwnode properties are read-only, the pixel
\* rate has no operations).
PartCtrlOrder ==
    << "EXPOSURE", "ANALOGUE_GAIN", "HBLANK", "VBLANK", "HFLIP", "VFLIP",
       "TEST_PATTERN" >>

\* pm_runtime_put: the reference is dropped, the idle check is left to the
\* PM core.
pm_runtime_put(w) == [w EXCEPT !.pm.usage_count = @ - 1]

\* pm_runtime_put_sync: the reference is dropped and a device left without
\* one is suspended before the call returns.
pm_runtime_put_sync(w) ==
    [w EXCEPT !.pm.usage_count = @ - 1,
              !.pm.status = IF w.pm.usage_count = 1 THEN "suspended" ELSE @]

\* ar0822_set_testpattern: seven or five writes chained on one error
\* variable, and 0 returned whatever it holds.
ar0822_set_testpattern(w, val) ==
    [cci_multi_reg_write(
         w,
         IF val # 0
         THEN << Reg("BLKLEVEL", 0), Reg("TPG_EN_DUOUT", 1),
                 Reg("TPG_PATSEL_DUOUT", val - 1), Reg("TPG_COLORWIDTH", 1),
                 Reg("TESTCLKEN_MIPI", 32), Reg("DIG_CLP_MODE", 0),
                 Reg("WRJ_OPEN", 0) >>
         ELSE << Reg("BLKLEVEL", val), Reg("TPG_EN_DUOUT", 0),
                 Reg("TESTCLKEN_MIPI", 0), Reg("DIG_CLP_MODE", 1),
                 Reg("WRJ_OPEN", 1) >>)
     EXCEPT !.ret = OK]

\* ar0822_s_ctrl.  clamped says whether the new exposure range of a
\* vertical-blanking set moves the exposure value, which
\* __v4l2_ctrl_modify_range then sets through this same handler.
RECURSIVE ar0822_s_ctrl(_, _, _, _)
ar0822_s_ctrl(w, id, val, clamped) ==
    LET w0 == IF id = "VBLANK" /\ clamped
              THEN [ar0822_s_ctrl(w, "EXPOSURE", val, FALSE) EXCEPT !.ret = OK]
              ELSE w
        w1 == [w0 EXCEPT !.pm.usage_count = @ + 1]
    IN  IF ~pm_runtime_get_if_in_use(w0) THEN [w0 EXCEPT !.ret = OK]
        ELSE CASE id = "VBLANK" ->
                    LET w2 == cci_write(w1, "VMAX", val)
                    IN  IF w2.ret # OK THEN w2
                        ELSE pm_runtime_put(cci_write(w2, "SHR0", val))
               [] id = "EXPOSURE" -> pm_runtime_put(cci_write(w1, "SHR0", val))
               [] id = "ANALOGUE_GAIN" ->
                    pm_runtime_put(cci_write(w1, "GAIN_PCG_0", val))
               [] id \in {"HFLIP", "VFLIP"} ->
                    pm_runtime_put(cci_write(w1, "REVERSE", val))
               [] id = "TEST_PATTERN" ->
                    pm_runtime_put(ar0822_set_testpattern(w1, val))
               [] id = "HBLANK" -> cci_write(w1, "HMAX", val)
               [] OTHER -> pm_runtime_put([w1 EXCEPT !.ret = EINVAL])

\* __v4l2_ctrl_handler_setup over the controls of part_000: each one's
\* value handed to ar0822_s_ctrl, up to the first error.
RECURSIVE PartHandlerSetup(_, _, _)
PartHandlerSetup(w, i, clamped) ==
    IF i > Len(PartCtrlOrder) \/ w.ret # OK THEN w
    ELSE PartHandlerSetup(ar0822_s_ctrl(w, PartCtrlOrder[i], 0, clamped),
                          i + 1, clamped)

\* ar0822_set_mode: the mode's and the clock's tables chained on one error
\* variable, which the lane-mode write then overwrites.
ar0822_set_mode(w) ==
    cci_write(cci_multi_reg_write(w, << Reg("reg_list", 0),
                                        Reg("clk_params", 0) >>),
              "LANEMODE", 0)

\* ar0822_setup
ar0822_setup(w) ==
    LET w1 == cci_multi_reg_write(w, << Reg("ar0822_init_table", 0) >>)
    IN  IF w1.ret # OK THEN w1 ELSE ar0822_set_mode(w1)

\* ar0822_stream_on: ar0822_wakeup, then the start unless the wakeup failed
ar0822_stream_on(w) ==
    cci_multi_reg_write(w, << Reg("MODE", 0), Reg("XMSTA", 0) >>)

\* ar0822_stream_off: the stop, then standby unless the stop failed
ar0822_stream_off(w) ==
    cci_multi_reg_write(w, << Reg("XMSTA", 1), Reg("MODE", 1) >>)

\* ar0822_s_stream
ar0822_s_stream(w, enable, resume_fails, clamped) ==
    IF enable = 0
    THEN LET w1 == ar0822_stream_off(w)
         IN  pm_runtime_put_autosuspend(w1)
    ELSE LET w0 == pm_runtime_resume_and_get(w, resume_fails)
             w1 == ar0822_setup(w0)
             w2 == PartHandlerSetup(w1, 1, clamped)
             w3 == ar0822_stream_on(w2)
         IN  IF w0.ret # OK THEN w0
             ELSE IF w1.ret # OK THEN pm_runtime_put_sync(w1)
             ELSE IF w2.ret # OK THEN pm_runtime_put_sync(w2)
             ELSE IF w3.ret # OK THEN pm_runtime_put_sync(w3)
             ELSE w3

\* The state after the probe of part_000: powered, no reference held, the
\* autosuspend pending.
InitPart ==
    /\ sensor = [streaming |-> FALSE]
    /\ ctrls = << >>
    /\ pm = [usage_count |-> 0, status |-> "active", enabled |-> TRUE]
    /\ try_fmt = << >>
    /\ log = << >>
    /\ last = [op |-> "probe", ret |-> OK, arg |-> <<>>, out |-> <<>>,
               pre |-> <<>>]
    /\ nops = 0
    /\ mutex = NULL
    /\ tasks = NoTasks

CanCallPart == last = Idle /\ nops < MaxPartOps

\* .s_stream as the subdevice core calls it: never to start a started or
\* stop a stopped subdevice; a failed stop counts as a stop.
PartSetStream ==
    /\ CanCallPart
    /\ \E enable \in {0, 1}, clamped \in BOOLEAN :
        /\ sensor.streaming = (enable = 0)
        /\ \E fails \in FailChoices(Len(ar0822_s_stream(Now, enable, FALSE,
                                                        clamped).log)),
              resume_fails \in IF pm.status = "suspended" /\ enable = 1
                               THEN BOOLEAN ELSE {FALSE} :
            \E w \in {ar0822_s_stream([Now EXCEPT !.fails = fails], enable,
                                      resume_fails, clamped)} :
                /\ sensor' = [streaming |-> (enable = 1 /\ w.ret = OK)]
                /\ pm' = w.pm
                /\ log' = w.log
                /\ last' = [op |-> "s_stream", ret |-> w.ret, arg |-> enable,
                            out |-> <<>>, pre |-> Pre]
    /\ nops' = nops + 1
    /\ UNCHANGED <<ctrls, try_fmt, mutex, tasks>>

\* A control set that reaches ar0822_s_ctrl
PartSetControl ==
    /\ CanCallPart
    /\ \E i \in DOMAIN PartCtrlOrder, val \in {0, 1}, clamped \in BOOLEAN :
        /\ clamped => PartCtrlOrder[i] = "VBLANK"
        /\ \E fails \in FailChoices(Len(ar0822_s_ctrl(Now, PartCtrlOrder[i],
                                                      val, clamped).log)) :
            \E w \in {ar0822_s_ctrl([Now EXCEPT !.fails = fails],
                                    PartCtrlOrder[i], val, clamped)} :
                /\ pm' = w.pm
                /\ log' = w.log
                /\ last' = [op |-> "s_ctrl", ret |-> w.ret,
                            arg |-> [id |-> PartCtrlOrder[i], val |-> val,
                                     clamped |-> clamped],
                            out |-> <<>>, pre |-> Pre]
    /\ nops' = nops + 1
    /\ UNCHANGED <<sensor, ctrls, try_fmt, mutex, tasks>>

NextPart ==
    \/ PartSetStream
    \/ PartSetControl
    \/ Return
    \/ RuntimeSuspend

SpecPart == InitPart /\ [][NextPart]_vars

\* C38: in part_000 the power references are balanced over every sequence
\* of ar0822_s_stream and ar0822_s_ctrl: the count is never negative; a
\* disable drops one reference, taken by the enable before it; a failed
\* enable leaves the count as it found it; ar0822_s_ctrl leaves the count
\* as it found it on every return path; so a streaming device holds one
\* reference and a stopped one none.
C38_ReferencesBalanced ==
    /\ pm.usage_count >= 0
    /\ pm.usage_count = IF sensor.streaming THEN 1 ELSE 0
    /\ last.op = "s_ctrl" => pm.usage_count = last.pre.pm.usage_count
    /\ (last.op = "s_stream" /\ last.arg = 1 /\ last.ret # OK) =>
           pm.usage_count = last.pre.pm.usage_count
    /\ (last.op = "s_stream" /\ last.arg = 0) =>
           /\ last.pre.sensor.streaming
           /\ pm.usage_count = last.pre.pm.usage_count - 1

\* The references ar0822_s_ctrl kept in the writes of the log lg: one for
\* each horizontal-blanking write and one for each failed frame-length
\* write.
RECURSIVE KeptReferences(_)
KeptReferences(lg) ==
    IF lg = << >> THEN 0
    ELSE (IF \/ Head(lg).reg = "HMAX"
             \/ Head(lg).reg = "VMAX" /\ ~Head(lg).ok
          THEN 1 ELSE 0) + KeptReferences(Tail(lg))

\* What holds of part_000: the count is never negative and never below the
\* one reference of a streaming device; a disable follows an enable and
\* drops one reference; ar0822_s_ctrl changes nothing on a device not in
\* use; an enable whose resume succeeded ends with its own reference if it
\* succeeds and without it if it fails; and on top of that the count grows
\* by one for every horizontal-blanking write and every failed frame-length
\* write ar0822_s_ctrl made, in a control set or in the control setup of an
\* enable.
C38_ReferencesNeverNegative ==
    /\ pm.usage_count >= (IF sensor.streaming THEN 1 ELSE 0)
    /\ (last.op = "s_stream" /\ last.arg = 0) =>
           /\ last.pre.sensor.streaming
           /\ pm.usage_count = last.pre.pm.usage_count - 1
    /\ (last.op = "s_stream" /\ last.arg = 1) =>
           pm.usage_count = last.pre.pm.usage_count + KeptReferences(log)
                            + (IF last.ret = OK THEN 1 ELSE 0)
    /\ last.op = "s_ctrl" =>
           /\ (last.pre.pm.usage_count = 0 \/ last.pre.pm.status # "active")
                  => (pm = last.pre.pm /\ log = << >> /\ last.ret = OK)
           /\ pm.usage_count = last.pre.pm.usage_count + KeptReferences(log)

=============================================================================
